---- MODULE Spec2Model ----
(***************************************************************************)
(* Resumable reconciliation engine of netflix_marketing_analytics:         *)
(* the Run Tracker (BaseTrackingController over processing_status), the    *)
(* actors_titles stager and drain (ActorsTitlesController), the legacy      *)
(* actor_titles stager (ActorTitlesController) and the categories_titles    *)
(* drain (CategoriesTitlesController).                                      *)
(*                                                                          *)
(* Text is modelled as a sequence of one-character strings, so that        *)
(* strip, split, lower and ILIKE are computed as the code computes them.   *)
(***************************************************************************)
EXTENDS Integers, Sequences, FiniteSets, TLC

\* ------------------------------------------------------------------ bounds
MaxRuns == 4         \* rows of processing_status a behaviour may create
MaxBatch == 3        \* largest batch_size passed to the drain
MaxFaults == 1       \* store errors injected in one behaviour
MaxLoads == 2        \* times the bulk loader replaces temp_netflix_titles
MaxCount == 4        \* records_processed up to which a category drain starts

\* ------------------------------------------------------------- Python/SQL
\* The SQL NULL / Python None of a text column or argument.
None == <<"None">>
\* The NULL of an integer or timestamp column.
NoValue == -1
\* The NULL of processing_status.error_message.
NoMessage == "<null>"

IsSpace(c) == c = " "

LowerChar(c) ==
  CASE c = "A" -> "a"
    [] c = "B" -> "b"
    [] c = "C" -> "c"
    [] c = "I" -> "i"
    [] c = "L" -> "l"
    [] c = "N" -> "n"
    [] c = "Á" -> "á"
    [] OTHER -> c

\* str.lower() / SQL LOWER()
Lower(s) == [i \in DOMAIN s |-> LowerChar(s[i])]

RECURSIVE LStrip(_)
LStrip(s) == IF s # <<>> /\ IsSpace(Head(s)) THEN LStrip(Tail(s)) ELSE s

RECURSIVE RStrip(_)
RStrip(s) ==
  IF s # <<>> /\ IsSpace(s[Len(s)]) THEN RStrip(SubSeq(s, 1, Len(s) - 1)) ELSE s

\* str.strip() / SQL TRIM()
Strip(s) == RStrip(LStrip(s))

\* str.split(sep) for a one-character separator: empty fields are kept.
RECURSIVE SplitOn(_, _, _)
SplitOn(s, sep, cur) ==
  IF s = <<>> THEN <<cur>>
  ELSE IF Head(s) = sep THEN <<cur>> \o SplitOn(Tail(s), sep, <<>>)
  ELSE SplitOn(Tail(s), sep, Append(cur, Head(s)))

SplitComma(s) == SplitOn(s, ",", <<>>)

\* str.split() without argument: runs of whitespace separate, no empty token.
RECURSIVE SplitWs(_, _)
SplitWs(s, cur) ==
  IF s = <<>> THEN (IF cur = <<>> THEN <<>> ELSE <<cur>>)
  ELSE IF IsSpace(Head(s))
       THEN (IF cur = <<>> THEN <<>> ELSE <<cur>>) \o SplitWs(Tail(s), <<>>)
       ELSE SplitWs(Tail(s), Append(cur, Head(s)))

Split(s) == SplitWs(s, <<>>)

\* " ".join(parts)
RECURSIVE JoinSpace(_)
JoinSpace(parts) ==
  IF parts = <<>> THEN <<>>
  ELSE IF Len(parts) = 1 THEN parts[1]
  ELSE parts[1] \o <<" ">> \o JoinSpace(Tail(parts))

\* value ILIKE '%pat%'
Contains(value, pat) ==
  \E i \in 0..(Len(value) - Len(pat)) :
    SubSeq(Lower(value), i + 1, i + Len(pat)) = Lower(pat)

ILike(value, pat) == value # None /\ Contains(value, pat)

\* Python truthiness of an optional string.
Truthy(s) == s # None /\ s # <<>>

Min(a, b) == IF a < b THEN a ELSE b

SeqToSet(s) == {s[i] : i \in DOMAIN s}

\* -------------------------------------------------------------- test data
Dr == <<"D", "r">>
Ki == <<"K", "i">>
An == <<"A", "n">>
Ana == <<"A", "n", "a">>
AnLi == <<"A", "n", " ", "L", "i">>
Unknown == <<"u", "n", "k", "n", "o", "w", "n">>

\* rows of temp_netflix_titles the bulk loader may deliver
SourceRows ==
  { [show_id |-> "s1", cast |-> Ana \o <<",", " ">> \o An,
     listed_in |-> Dr \o <<",", " ">> \o Ki],
    [show_id |-> "s1", cast |-> AnLi \o <<",">> \o An,
     listed_in |-> Dr \o <<",">> \o Unknown],
    [show_id |-> "s9", cast |-> An \o <<",">> \o Unknown,
     listed_in |-> Ki] }

Sources == {<<r>> : r \in SourceRows}

\* public.titles: code -> title_id ("s9" has no title)
TitleRows == {[code |-> "s1", title_id |-> 1], [code |-> "s2", title_id |-> 2]}


\* ------------------------------------------------------------------ state
VARIABLES
  temp_netflix_titles,  \* source table: Seq of [show_id, cast, listed_in]
  temp_actors_titles,   \* staging table of ActorsTitlesController; id = index
  temp_actor_titles,    \* staging table of the legacy ActorTitlesController
  people,               \* public.people; person_id = index
  actors,               \* public.actors: Seq of actor_id
  actors_titles,        \* junction table: Seq of [actor_id, title_id]
  processing_status,    \* checkpoint table; status_id = index
  ctl,                  \* BaseTrackingController fields, per controller object
  people_cache,         \* ActorsTitlesController._people_cache
  title_cache,          \* ActorsTitlesController._title_cache
  drain,                \* locals of the running populate_actors_titles call
  temp_categories_titles, \* staging table of CategoriesTitlesController
  temp_categories,      \* staging table of CategoriesController (no id column)
  temp_director,        \* staging table of DirectorsController
  directors,            \* public.directors: Seq of director_id
  temp_actors,          \* staging table of ActorsController
  temp_titles,          \* staging table of TitlesController
  titles,               \* public.titles as TitlesController writes it
  temp_title_types,     \* staging table of TitleTypesController
  title_types,          \* public.title_types: Seq of description
  builders,             \* the Builder instances of two concurrent processes
  categories,           \* public.categories: Seq of description; id = index
  categories_titles,    \* junction table: Seq of [category_id, title_id]
  category_cache,       \* CategoriesTitlesController._category_cache
  cat_title_cache,      \* CategoriesTitlesController._title_cache
  cdrain,               \* locals of the running populate_categories_titles call
  conn_failed,          \* the shared DBConnection is in a failed transaction
  now,                  \* datetime.now()
  faultsLeft,           \* store errors the environment may still raise
  loads,                \* bulk loads of temp_netflix_titles so far
  lastOp,               \* the last call made on the controller and its outcome
  hist                  \* observations of the current and earlier drains

vars == <<temp_netflix_titles, temp_actors_titles, temp_actor_titles, people,
          actors, actors_titles, processing_status, ctl, people_cache,
          title_cache, drain, temp_categories_titles, temp_categories,
          temp_director, directors, temp_actors, temp_titles, titles,
          temp_title_types, title_types, builders, categories,
          categories_titles, category_cache, cat_title_cache, cdrain,
          conn_failed, now, faultsLeft, loads, lastOp, hist>>

storeVars == <<temp_netflix_titles, temp_actors_titles, temp_actor_titles,
               people, actors, actors_titles>>

\* The tables of the title and title-type controllers, and the Builder
\* instances that run as processes of their own.
moreStoreVars ==
  <<temp_titles, titles, temp_title_types, title_types, builders>>

catStoreVars ==
  <<temp_categories_titles, temp_categories, temp_director, directors, temp_actors,
    moreStoreVars, categories, categories_titles>>

catVars == <<catStoreVars, category_cache, cat_title_cache, cdrain>>

actorVars == <<storeVars, people_cache, title_cache, drain, loads>>

\* ------------------------------------------------------------ Run Tracker
Terminal == {"completed", "failed"}

\* The controller objects of a process, one per class.
Controllers ==
  {"ActorsTitlesController", "ActorTitlesController",
   "CategoriesTitlesController", "CategoriesController", "ActorsController",
   "TitlesController", "TitleTypesController"}

\* BaseTrackingController.__init__
NewController ==
  [current_run_id |-> 0, records_processed |-> 0, records_created |-> 0,
   records_skipped |-> 0]

\* The tracker operators work on T = [ps, c, now, failed]: the checkpoint
\* table, the controller's tracking fields, the clock and the state of the
\* DBConnection singleton every repository shares.  A store error is an error
\* the server reports for a statement: psycopg2 then refuses every later
\* statement on the connection until rollback() is called, and the
\* ProcessingStatusRepository never calls it.  aborts tells the two kinds of
\* error apart: TRUE for an error of a statement inside the transaction,
\* FALSE for one that leaves no transaction open (a failed commit, an error
\* raised on the client before the statement is sent).
TrackerState(k, aborts) ==
  [ps |-> processing_status, c |-> ctl[k], now |-> now, failed |-> conn_failed,
   aborts |-> aborts]

\* The state of the connection after a call that raised.
AfterError(T) == [T EXCEPT !.failed = T.failed \/ T.aborts]

\* ProcessingStatusRepository.create_processing_run: INSERT ... 'started'
create_processing_run(ps, table_name, t) ==
  Append(ps, [table_name |-> table_name, status |-> "started",
              records_processed |-> NoValue, records_created |-> NoValue,
              records_skipped |-> NoValue, start_time |-> t,
              end_time |-> NoValue, error_message |-> NoMessage])

\* update_processing_status that writes end_time only for a terminal status.
update_processing_status_keep(ps, status_id, status, rp, rc, rs, error_message, t) ==
  [i \in DOMAIN ps |->
     IF i = status_id
     THEN [ps[i] EXCEPT !.status = status,
                        !.records_processed = rp,
                        !.records_created = rc,
                        !.records_skipped = rs,
                        !.error_message = error_message,
                        !.end_time = IF status \in Terminal THEN t ELSE @]
     ELSE ps[i]]

\* ProcessingStatusRepository.update_processing_status: UPDATE ... WHERE id
update_processing_status(ps, status_id, status, rp, rc, rs, error_message, t) ==
  [i \in DOMAIN ps |->
     IF i = status_id
     THEN [ps[i] EXCEPT !.status = status,
                        !.records_processed = rp,
                        !.records_created = rc,
                        !.records_skipped = rs,
                        !.error_message = error_message,
                        !.end_time = IF status \in Terminal THEN t ELSE NoValue]
     ELSE ps[i]]

\* BaseTrackingController.start_processing_run; ok = no error is raised for
\* the INSERT.  On an exception nothing is assigned: current_run_id keeps
\* its old value.
start_processing_run(T, table_name, ok) ==
  IF ok /\ ~T.failed
  THEN [ps |-> create_processing_run(T.ps, table_name, T.now),
        c |-> [current_run_id |-> Len(T.ps) + 1, records_processed |-> 0,
               records_created |-> 0, records_skipped |-> 0],
        now |-> T.now + 1, failed |-> FALSE, aborts |-> T.aborts]
  ELSE AfterError(T)

\* BaseTrackingController.update_processing_progress; ok = no error is
\* raised for the UPDATE (a store exception is printed and swallowed).
update_processing_progress(T, status, error_message, ok) ==
  IF T.c.current_run_id = 0 THEN T
  ELSE IF ~ok \/ T.failed THEN AfterError(T)
  ELSE [T EXCEPT
          !.ps = update_processing_status(T.ps, T.c.current_run_id, status,
                   T.c.records_processed, T.c.records_created,
                   T.c.records_skipped, error_message, T.now),
          !.now = T.now + 1]

\* A Python call result: the tracker state after the call and the exception
\* it raised ("none" when it returned).
Returned(T) == [t |-> T, exc |-> "none"]
Raised(T, e) == [t |-> T, exc |-> e]

\* complete_processing_run that lets the store's exception through.
complete_processing_run_reraise(T, nargs, ok) ==
  IF nargs # 0 THEN Raised(T, "TypeError")
  ELSE IF T.c.current_run_id # 0 /\ (~ok \/ T.failed)
  THEN Raised(AfterError(T), "StoreError")
  ELSE Returned(update_processing_progress(T, "completed", NoMessage, ok))

\* BaseTrackingController.complete_processing_run(self): called with nargs
\* positional arguments; any argument is a TypeError raised before the body.
complete_processing_run(T, nargs, ok) ==
  IF nargs # 0 THEN Raised(T, "TypeError")
  ELSE Returned(update_processing_progress(T, "completed", NoMessage, ok))

\* BaseTrackingController.fail_processing_run(self, error_message): called
\* with the argument list args; exactly one argument is accepted.
fail_processing_run(T, args, ok) ==
  IF Len(args) # 1 THEN Raised(T, "TypeError")
  ELSE Returned(update_processing_progress(T, "failed", args[1], ok))

increment_processed(c) == [c EXCEPT !.records_processed = @ + 1]
increment_created(c) == [c EXCEPT !.records_created = @ + 1]
increment_skipped(c) == [c EXCEPT !.records_skipped = @ + 1]


\* ---------------------------------------------------------------- stagers
\* ORDER BY show_id over the show ids of the test data
ShowOrder == <<"s1", "s2", "s9">>

RECURSIVE OrderByShowId(_, _)
OrderByShowId(rows, k) ==
  IF k > Len(ShowOrder) THEN <<>>
  ELSE SelectSeq(rows, LAMBDA r : r.show_id = ShowOrder[k])
         \o OrderByShowId(rows, k + 1)

\* ActorsTitlesController._extract_actor_records, the loop over one row
RECURSIVE ActorTokens(_, _)
ActorTokens(show_id, cast_list) ==
  IF cast_list = <<>> THEN <<>>
  ELSE LET actor == Strip(Head(cast_list))
           rest == ActorTokens(show_id, Tail(cast_list))
       IN IF actor # <<>> /\ Lower(actor) # Unknown
          THEN <<[show_id |-> show_id, actor_name |-> actor,
                  processed |-> FALSE]>> \o rest
          ELSE rest

RECURSIVE ExplodeRows(_)
ExplodeRows(df) ==
  IF df = <<>> THEN <<>>
  ELSE ActorTokens(Head(df).show_id, SplitComma(Head(df).cast))
         \o ExplodeRows(Tail(df))

\* ActorsTitlesController._extract_actor_records
_extract_actor_records(src) ==
  LET df == OrderByShowId(
              SelectSeq(src, LAMBDA r : /\ r.cast # None
                                        /\ r.cast # <<>>
                                        /\ Strip(r.cast) # <<>>
                                        /\ r.cast # Unknown), 1)
  IN ExplodeRows(df)

\* ActorTitlesController.create_temp_actor_titles_table, the loop over one row
RECURSIVE LegacyTokens(_, _)
LegacyTokens(show_id, raw_actor_names) ==
  IF raw_actor_names = <<>> THEN <<>>
  ELSE LET clean_name == Strip(Head(raw_actor_names))
           rest == LegacyTokens(show_id, Tail(raw_actor_names))
       IN IF clean_name # <<>>
          THEN <<[actor_name |-> clean_name, show_id |-> show_id,
                  processed |-> FALSE]>> \o rest
          ELSE rest

RECURSIVE LegacyExplode(_)
LegacyExplode(records) ==
  IF records = <<>> THEN <<>>
  ELSE (IF Truthy(Head(records).cast) /\ Head(records).cast # Unknown
        THEN LegacyTokens(Head(records).show_id, SplitComma(Head(records).cast))
        ELSE <<>>) \o LegacyExplode(Tail(records))

\* Sets of fault points an operation may suffer with the errors left.
FaultSets(points) == {F \in SUBSET points : Cardinality(F) <= faultsLeft}

\* Whether the errors of one call leave the shared connection in a failed
\* transaction (nothing to choose when no error is injected).
Aborts(F) == IF F = {} THEN {FALSE} ELSE BOOLEAN

Idle == drain.pc = "idle" /\ cdrain.pc = "idle"

\* The candidates of a staging table that are still to be handled.
PendingIds(table) == {i \in DOMAIN table : table[i].processed = FALSE}

NoDrain == [pc |-> "idle"]

\* The processes that each run one ActorsTitlesController of their own.
Builders == {1, 2}

\* A Builder instance after ActorsTitlesController.__init__: its tracking
\* fields, its two caches, the locals of its running drain and, inside
\* _process_single_record, the statement it is at with the values read so far.
NewBuilder ==
  [c |-> NewController, people_cache |-> <<>>, title_cache |-> <<>>,
   drain |-> NoDrain, at |-> "none", person_id |-> 0, actor_id |-> 0,
   title_id |-> 0, exists |-> FALSE, seen_people |-> 0, seen_rel |-> 0]
NoCatDrain == [pc |-> "idle"]
NoOp == [op |-> "none", run |-> 0, exc |-> "none", totals |-> <<0, 0, 0>>]
NoHist ==
  [resolved |-> {},          \* <<name, id>> : _find_actor_id(name) returned id
   startUnprocessed |-> {},  \* ids unprocessed when the drain started
   relAtStart |-> <<>>,      \* actors_titles when the drain started
   handled |-> {},           \* ids the drain passed to _process_single_record
   faulted |-> FALSE,        \* a store error was raised during the drain
   tempAtStart |-> <<>>,     \* temp_actors_titles when the drain started
   resumed |-> FALSE,        \* a drain of this staging table was stopped
   resumedAtStart |-> FALSE, \* ... before the current drain started
   raisedIds |-> {},         \* candidates (records) whose handling raised
   titleMiss |-> {},         \* ... reported "title not found", see CatResolve
   linked |-> {},            \* ... whose handling committed a relationship
   fixed |-> {}]             \* ids an external fix reset to unprocessed

\* _create_empty_temp_table with DROP TABLE IF EXISTS left out and the table
\* created only when missing.
_create_empty_temp_table_keep(table) == table

\* ActorsTitlesController._create_empty_temp_table: DROP TABLE IF EXISTS,
\* CREATE TABLE and commit; the table it leaves.
_create_empty_temp_table(table) == <<>>

\* ActorsTitlesController._insert_actor_records: to_sql(if_exists='append');
\* the SERIAL id continues after the rows in place.
_insert_actor_records(table, actor_records) == table \o actor_records

\* ActorsTitlesController.create_temp_actors_titles_table, the whole call.
\* The run is started before the try block; any exception of the body is
\* answered by fail_processing_run and re-raised.
\* Fault points: the INSERT of the run, DROP/CREATE, the read of the source,
\* the append of the records, the final UPDATE of the run.
create_temp_actors_titles_table ==
  /\ Idle
  /\ Len(processing_status) < MaxRuns
  /\ \E F \in FaultSets({"start", "create", "extract", "insert", "finish"}) :
     \E aborts \in Aborts(F) :
       LET k == "ActorsTitlesController"
           T1 == start_processing_run(TrackerState(k, aborts), "temp_actors_titles",
                                      "start" \notin F)
           run_id == IF "start" \in F \/ conn_failed THEN 0
                     ELSE T1.c.current_run_id
           actor_records == _extract_actor_records(temp_netflix_titles)
           raised ==
             \/ "create" \in F
             \/ "extract" \in F
             \/ (actor_records # <<>> /\ "insert" \in F)
           table ==
             IF "create" \in F THEN temp_actors_titles
             ELSE IF raised
             THEN _create_empty_temp_table(temp_actors_titles)
             ELSE _insert_actor_records(
                    _create_empty_temp_table(temp_actors_titles),
                    actor_records)
           R == IF raised
                THEN fail_processing_run(T1, <<"StoreError">>, "finish" \notin F)
                ELSE complete_processing_run(T1, 0, "finish" \notin F)
       IN /\ temp_actors_titles' = table
          /\ processing_status' = R.t.ps
          /\ ctl' = [ctl EXCEPT ![k] = R.t.c]
          /\ now' = R.t.now
          /\ conn_failed' = R.t.failed
          /\ faultsLeft' = faultsLeft - Cardinality(F)
          /\ lastOp' = [op |-> "create_temp_actors_titles_table",
                        run |-> run_id,
                        exc |-> IF raised THEN "StoreError" ELSE R.exc,
                        totals |-> <<0, 0, 0>>]
  /\ hist' = [hist EXCEPT !.resumed = FALSE]
  /\ UNCHANGED catVars
  /\ UNCHANGED <<temp_netflix_titles, temp_actor_titles, people, actors,
                 actors_titles, people_cache, title_cache, drain, loads>>

\* ActorTitlesController.create_temp_actor_titles_table, the whole call.
\* complete_processing_run is called with four arguments and
\* fail_processing_run with two.  TempNetflixTitlesRepository.get_all reads
\* through the shared DBConnection and does not roll back.
create_temp_actor_titles_table ==
  /\ Idle
  /\ Len(processing_status) < MaxRuns
  /\ \E F \in FaultSets({"start", "read", "write"}) :
     \E aborts \in Aborts(F) :
       LET k == "ActorTitlesController"
           T1 == start_processing_run(TrackerState(k, aborts), "temp_actor_titles",
                                      "start" \notin F)
           run_id == IF "start" \in F \/ conn_failed THEN 0
                     ELSE T1.c.current_run_id
           actor_titles_list == LegacyExplode(temp_netflix_titles)
           readRaised == "read" \in F \/ T1.failed
           bodyRaised == readRaised \/ "write" \in F
           table == IF bodyRaised THEN temp_actor_titles ELSE actor_titles_list
           C == IF bodyRaised
                THEN Raised(IF readRaised THEN AfterError(T1) ELSE T1,
                            "StoreError")
                ELSE complete_processing_run(T1, 4, TRUE)
           R == IF C.exc = "none" THEN C
                ELSE fail_processing_run(C.t, <<run_id, C.exc>>, TRUE)
       IN /\ temp_actor_titles' = table
          /\ processing_status' = R.t.ps
          /\ ctl' = [ctl EXCEPT ![k] = R.t.c]
          /\ now' = R.t.now
          /\ conn_failed' = R.t.failed
          /\ faultsLeft' = faultsLeft - Cardinality(F)
          /\ lastOp' = [op |-> "create_temp_actor_titles_table",
                        run |-> run_id,
                        exc |-> IF R.exc # "none" THEN R.exc ELSE C.exc,
                        totals |-> <<0, 0, 0>>]
  /\ UNCHANGED catVars
  /\ UNCHANGED <<temp_netflix_titles, temp_actors_titles, people, actors,
                 actors_titles, people_cache, title_cache, drain, loads, hist>>

\* The bulk loader (external collaborator) replaces temp_netflix_titles.
LoadCsv ==
  /\ Idle
  /\ loads < MaxLoads
  /\ \E src \in Sources :
       /\ src # temp_netflix_titles
       /\ temp_netflix_titles' = src
  /\ loads' = loads + 1
  /\ UNCHANGED catVars
  /\ UNCHANGED <<temp_actors_titles, temp_actor_titles, people, actors,
                 actors_titles, processing_status, ctl, people_cache,
                 title_cache, drain, conn_failed, now, faultsLeft, lastOp,
                 hist>>

\* ------------------------------------------- actors_titles: the resolver
\* dict assignment cache[key] = value
CachePut(cache, key, value) ==
  [k \in DOMAIN cache \cup {key} |-> IF k = key THEN value ELSE cache[k]]

\* The rows of people INNER JOIN actors, as person ids.
ActorPeople(P, A) == {i \in DOMAIN P : i \in SeqToSet(A)}

\* One iteration of the loop of _build_people_cache for the row of person i.
CacheRow(cache, P, i) ==
  LET first_name == Lower(Strip(P[i].first_name))
      last_name == Lower(Strip(IF P[i].last_name = None THEN <<>>
                                ELSE P[i].last_name))
      full_name == Strip(first_name \o <<" ">> \o last_name)
  IN CachePut(CachePut(cache, full_name, i), first_name, i)

RECURSIVE CacheRows(_, _, _)
CacheRows(cache, P, order) ==
  IF order = <<>> THEN cache
  ELSE CacheRows(CacheRow(cache, P, Head(order)), P, Tail(order))

\* The orders in which a SELECT without ORDER BY may return the rows S.
RowOrders(S) ==
  {f \in [1..Cardinality(S) -> S] : \A i, j \in DOMAIN f : i # j => f[i] # f[j]}

\* ActorsTitlesController._build_people_cache: the caches it may leave.
_build_people_cache(cache, P, A) ==
  {CacheRows(cache, P, order) : order \in RowOrders(ActorPeople(P, A))}

\* ActorsTitlesController._build_title_cache
_build_title_cache(cache) ==
  [c \in DOMAIN cache \cup {t.code : t \in TitleRows} |->
     IF \E t \in TitleRows : t.code = c
     THEN (CHOOSE t \in TitleRows : t.code = c).title_id
     ELSE cache[c]]

\* PeopleRepository.get_by_name: ids of the rows matching every given part
\* by first_name ILIKE '%..%' etc.; no part given matches nothing.
get_by_name(P, first_name, middle_name, last_name) ==
  IF ~Truthy(first_name) /\ ~Truthy(middle_name) /\ ~Truthy(last_name) THEN {}
  ELSE {i \in DOMAIN P :
          /\ Truthy(first_name) => ILike(P[i].first_name, first_name)
          /\ Truthy(middle_name) => ILike(P[i].middle_name, middle_name)
          /\ Truthy(last_name) => ILike(P[i].last_name, last_name)}

\* ActorsTitlesController._update_cache_for_actor
_update_cache_for_actor(cache, actor_name, actor_id) ==
  LET actor_name_lower == Strip(Lower(actor_name))
      parts == Split(actor_name_lower)
      c1 == CachePut(cache, actor_name_lower, actor_id)
  IN IF parts # <<>> THEN CachePut(c1, parts[1], actor_id) ELSE c1

\* A resolver outcome: the id returned (0 = None), the tables and the cache
\* it leaves, and whether a repository call raised.
Outcome(id, P, A, cache, faulted) ==
  [id |-> id, people |-> P, actors |-> A, cache |-> cache, faulted |-> faulted]

\* ActorsTitlesController._create_missing_actor from the actor_exists check
\* on, for the person person_id of the people table P1.
CreateActorFor(actor_name, person_id, P1, A, cache) ==
  {Outcome(0, P1, A, cache, TRUE)}                    \* actor_exists raises
  \cup (IF person_id \in SeqToSet(A)
        THEN {Outcome(person_id, P1, A,
                      _update_cache_for_actor(cache, actor_name, person_id),
                      FALSE)}
        ELSE {Outcome(0, P1, A, cache, TRUE),         \* actors create raises
              Outcome(person_id, P1, Append(A, person_id),
                      _update_cache_for_actor(cache, actor_name, person_id),
                      FALSE)})

\* ActorsTitlesController._create_missing_actor: every outcome, the store
\* errors of each repository call included (they are caught, the shared
\* connection is rolled back and None is returned).  On a failed connection
\* the first repository call raises.  existing_people[0] is any of the
\* matching rows.
_create_missing_actor(actor_name, P, A, cache, failed) ==
  LET parts == Split(Strip(actor_name))
      first_name == IF parts # <<>> THEN parts[1] ELSE Unknown
      last_name == IF Len(parts) > 1 THEN JoinSpace(Tail(parts)) ELSE None
      existing_people == get_by_name(P, first_name, None, last_name)
      person_data == [first_name |-> first_name, middle_name |-> None,
                      last_name |-> last_name]
  IN IF failed THEN {Outcome(0, P, A, cache, FALSE)}
     ELSE
     {Outcome(0, P, A, cache, TRUE)}                  \* a lookup/create raises
     \cup (IF existing_people # {}
           THEN UNION {CreateActorFor(actor_name, person_id, P, A, cache) :
                         person_id \in existing_people}
           ELSE CreateActorFor(actor_name, Len(P) + 1,
                               Append(P, person_data), A, cache))

\* _find_actor_id answers from the cache (no repository is called).
CacheHit(actor_name, cache) ==
  LET actor_name_lower == Strip(Lower(actor_name))
      parts == Split(actor_name_lower)
  IN \/ actor_name_lower \in DOMAIN cache
     \/ parts # <<>> /\ parts[1] \in DOMAIN cache

\* _find_actor_id without the first-name lookup.
_find_actor_id_exact(actor_name, P, A, cache, failed) ==
  LET actor_name_lower == Strip(Lower(actor_name))
  IN IF actor_name_lower \in DOMAIN cache
     THEN {Outcome(cache[actor_name_lower], P, A, cache, FALSE)}
     ELSE _create_missing_actor(actor_name, P, A, cache, failed)

\* ActorsTitlesController._find_actor_id
_find_actor_id(actor_name, P, A, cache, failed) ==
  LET actor_name_lower == Strip(Lower(actor_name))
      parts == Split(actor_name_lower)
  IN IF actor_name_lower \in DOMAIN cache
     THEN {Outcome(cache[actor_name_lower], P, A, cache, FALSE)}
     ELSE IF parts # <<>> /\ parts[1] \in DOMAIN cache
     THEN {Outcome(cache[parts[1]], P, A, cache, FALSE)}
     ELSE _create_missing_actor(actor_name, P, A, cache, failed)

\* ---------------------------------------------- actors_titles: the drain
\* Unprocessed with the WHERE clause forgotten.
UnprocessedIgnoringFlag(table) == DOMAIN table

\* WHERE processed = FALSE
Unprocessed(table) == {i \in DOMAIN table : ~table[i].processed}

RECURSIVE SortedIds(_)
SortedIds(S) ==
  IF S = {} THEN <<>>
  ELSE LET m == CHOOSE x \in S : \A y \in S : x <= y
       IN <<m>> \o SortedIds(S \ {m})

\* SELECT id ... WHERE processed = FALSE ORDER BY id LIMIT batch_size OFFSET
\* offset
SelectBatch(table, batch_size, offset) ==
  LET ids == SortedIds(Unprocessed(table))
  IN SubSeq(ids, offset + 1, Min(offset + batch_size, Len(ids)))

\* _mark_as_processed_in_trans whose UPDATE matches by show_id.
_mark_as_processed_in_trans_show(table, record_id) ==
  [i \in DOMAIN table |->
     IF table[i].show_id = table[record_id].show_id
     THEN [table[i] EXCEPT !.processed = TRUE] ELSE table[i]]

\* _mark_as_processed_in_trans whose UPDATE matches no row.
_mark_as_processed_in_trans_skip(table, record_id) == table

\* _mark_as_processed_in_trans
_mark_as_processed_in_trans(table, record_id) ==
  [i \in DOMAIN table |->
     IF i = record_id THEN [table[i] EXCEPT !.processed = TRUE] ELSE table[i]]

\* _check_existing_relationship that never finds the row.
_check_existing_relationship_never(rel, actor_id, title_id) == FALSE

\* _check_existing_relationship: SELECT COUNT(*) ... > 0
_check_existing_relationship(rel, actor_id, title_id) ==
  \E i \in DOMAIN rel : rel[i].actor_id = actor_id /\ rel[i].title_id = title_id

\* _create_relationship: INSERT INTO actors_titles
_create_relationship(rel, actor_id, title_id) ==
  Append(rel, [actor_id |-> actor_id, title_id |-> title_id])

\* populate_actors_titles_table_from_temp up to the first page: the run is
\* started, the unprocessed rows are counted, and either the run completes at
\* once (nothing to do) or the caches are built and the loop is entered.
\* Fault points: the INSERT of the run, the COUNT, the cache queries, the
\* UPDATE of the run.
DrainStart ==
  /\ Idle
  /\ Len(processing_status) < MaxRuns
  /\ \E batch_size \in 1..MaxBatch,
        F \in FaultSets({"start", "count", "cache", "finish"}) :
     \E aborts \in Aborts(F) :
       LET k == "ActorsTitlesController"
           T1 == start_processing_run(TrackerState(k, aborts), "actors_titles",
                                      "start" \notin F)
           run_id == IF "start" \in F \/ conn_failed THEN 0
                     ELSE T1.c.current_run_id
           total_unprocessed == Cardinality(Unprocessed(temp_actors_titles))
           raised == "count" \in F \/ (total_unprocessed # 0 /\ "cache" \in F)
           R == IF raised
                THEN fail_processing_run(T1, <<"StoreError">>, "finish" \notin F)
                ELSE IF total_unprocessed = 0
                THEN complete_processing_run(T1, 0, "finish" \notin F)
                ELSE Returned(T1)
           observed == [hist EXCEPT
                          !.startUnprocessed = PendingIds(temp_actors_titles),
                          !.relAtStart = actors_titles,
                          !.tempAtStart = temp_actors_titles,
                          !.handled = {},
                          !.faulted = F # {},
                          !.resumedAtStart = hist.resumed]
       IN /\ processing_status' = R.t.ps
          /\ ctl' = [ctl EXCEPT ![k] = R.t.c]
          /\ now' = R.t.now
          /\ conn_failed' = R.t.failed
          /\ faultsLeft' = faultsLeft - Cardinality(F)
          /\ IF raised \/ total_unprocessed = 0
             THEN /\ drain' = NoDrain
                  /\ UNCHANGED <<people_cache, title_cache>>
                  /\ lastOp' = [op |-> "populate_actors_titles_table_from_temp",
                                run |-> run_id,
                                exc |-> IF raised THEN "StoreError" ELSE "none",
                                totals |-> <<0, 0, 0>>]
                  /\ hist' = observed
             ELSE /\ people_cache' \in
                       _build_people_cache(people_cache, people, actors)
                  /\ title_cache' = _build_title_cache(title_cache)
                  /\ drain' = [pc |-> "page", run_id |-> run_id,
                               batch_size |-> batch_size,
                               total_unprocessed |-> total_unprocessed,
                               offset |-> 0, batch_df |-> <<>>,
                               total_processed |-> 0, total_created |-> 0,
                               total_skipped |-> 0, batch_processed |-> 0,
                               batch_created |-> 0, batch_skipped |-> 0]
                  /\ lastOp' = [op |-> "populate_actors_titles_table_from_temp",
                                run |-> 0, exc |-> "running",
                                totals |-> <<0, 0, 0>>]
                  /\ hist' = observed
  /\ UNCHANGED catVars
  /\ UNCHANGED <<storeVars, loads>>

\* One turn of `while offset < total_unprocessed` that finds a page: the batch
\* is read and _process_batch starts.
FetchPage ==
  /\ drain.pc = "page"
  /\ drain.offset < drain.total_unprocessed
  /\ LET batch_df == SelectBatch(temp_actors_titles, drain.batch_size,
                                 drain.offset)
     IN /\ batch_df # <<>>
        /\ drain' = [drain EXCEPT !.pc = "batch", !.batch_df = batch_df,
                                  !.batch_processed = 0, !.batch_created = 0,
                                  !.batch_skipped = 0]
  /\ UNCHANGED catVars
  /\ UNCHANGED <<storeVars, processing_status, ctl, people_cache, title_cache,
                 conn_failed, now, faultsLeft, loads, lastOp, hist>>

\* The loop ends (offset reached the count, or the page is empty): the run
\* is completed and the call returns.
DrainFinish ==
  /\ drain.pc = "page"
  /\ \/ drain.offset >= drain.total_unprocessed
     \/ SelectBatch(temp_actors_titles, drain.batch_size, drain.offset) = <<>>
  /\ \E F \in FaultSets({"finish"}) :
     \E aborts \in Aborts(F) :
       LET k == "ActorsTitlesController"
           R == complete_processing_run(TrackerState(k, aborts), 0, "finish" \notin F)
       IN /\ processing_status' = R.t.ps
          /\ ctl' = [ctl EXCEPT ![k] = R.t.c]
          /\ now' = R.t.now
          /\ conn_failed' = R.t.failed
          /\ faultsLeft' = faultsLeft - Cardinality(F)
          /\ hist' = [hist EXCEPT !.faulted = @ \/ F # {}]
  /\ lastOp' = [op |-> "populate_actors_titles_table_from_temp",
                run |-> drain.run_id, exc |-> "none",
                totals |-> <<drain.total_processed, drain.total_created,
                             drain.total_skipped>>]
  /\ drain' = NoDrain
  /\ UNCHANGED catVars
  /\ UNCHANGED <<storeVars, people_cache, title_cache, loads>>

\* AfterRecord for a _process_batch that does not add up the skipped records.
AfterRecord_unskipped(d, processed, created, skipped) ==
  LET b == [d EXCEPT !.batch_df = Tail(d.batch_df),
                     !.batch_processed = @ + processed,
                     !.batch_created = @ + created]
  IN IF b.batch_df # <<>> THEN b
     ELSE [b EXCEPT !.pc = "page",
                    !.total_processed = @ + b.batch_processed,
                    !.total_created = @ + b.batch_created,
                    !.offset = @ + d.batch_size]

\* AfterRecord for a loop that never moves on to the next record.
AfterRecord_stuck(d, processed, created, skipped) == d

\* The locals after one record returned (processed, created, skipped); after
\* the last record of the page the batch is added to the totals and the
\* offset advances by batch_size.
AfterRecord(d, processed, created, skipped) ==
  LET b == [d EXCEPT !.batch_df = Tail(d.batch_df),
                     !.batch_processed = @ + processed,
                     !.batch_created = @ + created,
                     !.batch_skipped = @ + skipped]
  IN IF b.batch_df # <<>> THEN b
     ELSE [b EXCEPT !.pc = "page",
                    !.total_processed = @ + b.batch_processed,
                    !.total_created = @ + b.batch_created,
                    !.total_skipped = @ + b.batch_skipped,
                    !.offset = @ + d.batch_size]

\* _process_single_record for the next row of the batch, with
\* _handle_failed_record.  tx is the fate of the record's transaction:
\* "commit"; "rollback" (a statement or the commit raised; the row is then
\* marked in a second transaction); "unmarked" (that second transaction
\* raised too).  An error inside _check_existing_relationship is swallowed,
\* but it aborts the transaction, so the following statement raises.
ProcessRecord ==
  /\ drain.pc = "batch"
  /\ LET record_id == Head(drain.batch_df)
         row == temp_actors_titles[record_id]
         actor_name == Strip(row.actor_name)
     IN \E o \in _find_actor_id(actor_name, people, actors, people_cache,
                                 conn_failed),
           tx \in {"commit", "rollback", "unmarked"} :
          LET cost == (IF o.faulted THEN 1 ELSE 0)
                        + (CASE tx = "commit" -> 0 [] tx = "rollback" -> 1
                             [] OTHER -> 2)
              actor_id == o.id
              title_id == IF row.show_id \in DOMAIN title_cache
                          THEN title_cache[row.show_id] ELSE 0
              exists == _check_existing_relationship(actors_titles, actor_id,
                                                     title_id)
              linked == actor_id # 0 /\ title_id # 0
              creates == linked /\ ~exists
          IN /\ cost <= faultsLeft
             /\ faultsLeft' = faultsLeft - cost
             /\ people' = o.people
             /\ actors' = o.actors
             /\ people_cache' = o.cache
             /\ conn_failed' = (conn_failed /\ CacheHit(actor_name, people_cache))
             /\ actors_titles' =
                  IF tx = "commit" /\ creates
                  THEN _create_relationship(actors_titles, actor_id, title_id)
                  ELSE actors_titles
             /\ temp_actors_titles' =
                  IF tx = "unmarked" THEN temp_actors_titles
                  ELSE _mark_as_processed_in_trans(temp_actors_titles, record_id)
             /\ drain' =
                  CASE tx = "commit" ->
                         AfterRecord(drain, 1, IF creates THEN 1 ELSE 0,
                                     IF creates THEN 0 ELSE 1)
                    [] tx = "rollback" -> AfterRecord(drain, 1, 0, 1)
                    [] OTHER -> AfterRecord(drain, 0, 0, 0)
             /\ hist' = [hist EXCEPT
                           !.resolved = @ \cup {<<actor_name, actor_id>>},
                           !.handled = @ \cup {record_id},
                           !.faulted = @ \/ cost > 0]
  /\ UNCHANGED catVars
  /\ UNCHANGED <<temp_netflix_titles, temp_actor_titles, processing_status,
                 ctl, title_cache, now, loads, lastOp>>

\* The process running the drain is stopped between two transactions.  The
\* controller objects are lost with it; the tables stay as committed.
Interrupt ==
  /\ drain.pc \in {"page", "batch"}
  /\ drain' = NoDrain
  /\ ctl' = [k \in Controllers |-> NewController]
  /\ people_cache' = <<>>
  /\ title_cache' = <<>>
  /\ lastOp' = [op |-> "populate_actors_titles_table_from_temp", run |-> 0,
                exc |-> "stopped", totals |-> <<0, 0, 0>>]
  /\ hist' = [hist EXCEPT !.resumed = TRUE]
  /\ conn_failed' = FALSE
  /\ category_cache' = <<>>
  /\ cat_title_cache' = <<>>
  /\ UNCHANGED cdrain
  /\ UNCHANGED catStoreVars
  /\ UNCHANGED <<storeVars, processing_status, now, faultsLeft, loads>>

\* A new process: fresh controller objects with empty caches.
Restart ==
  /\ Idle
  /\ \/ people_cache # <<>>
     \/ title_cache # <<>>
     \/ ctl # [k \in Controllers |-> NewController]
     \/ conn_failed
     \/ category_cache # <<>>
     \/ cat_title_cache # <<>>
  /\ ctl' = [k \in Controllers |-> NewController]
  /\ people_cache' = <<>>
  /\ title_cache' = <<>>
  /\ category_cache' = <<>>
  /\ cat_title_cache' = <<>>
  /\ conn_failed' = FALSE
  /\ UNCHANGED cdrain
  /\ UNCHANGED catStoreVars
  /\ UNCHANGED <<storeVars, processing_status, drain, now, faultsLeft, loads,
                 lastOp, hist>>

\* ------------------------------------------ categories_titles: the stager
\* (CountriesTitlesController is the same code with "categories" renamed to
\* "countries" and listed_in to country; what follows models both.)

\* rows of temp_netflix_titles for the category drains ("s2" has no cast)
CatSourceRows ==
  SourceRows \cup {[show_id |-> "s2", cast |-> None, listed_in |-> Ki]}

CatSources ==
  {<<a>> : a \in CatSourceRows}
    \cup {<<p[1], p[2]>> :
            p \in {q \in CatSourceRows \X CatSourceRows :
                     q[1].show_id # q[2].show_id}}

\* create_temp_categories_titles_table, the loop over one row's categories
RECURSIVE CategoryTokens(_, _)
CategoryTokens(show_id, cats) ==
  IF cats = <<>> THEN <<>>
  ELSE LET category == Strip(Head(cats))
           rest == CategoryTokens(show_id, Tail(cats))
       IN IF category # <<>> /\ Lower(category) # Unknown
          THEN <<[show_id |-> show_id, category_name |-> category,
                  processed |-> FALSE]>> \o rest
          ELSE rest

RECURSIVE CategoryRows(_)
CategoryRows(df) ==
  IF df = <<>> THEN <<>>
  ELSE CategoryTokens(Head(df).show_id, SplitComma(Head(df).listed_in))
         \o CategoryRows(Tail(df))

\* create_temp_categories_titles_table: the table it leaves when no store
\* error is raised.
category_records(src) ==
  LET df == OrderByShowId(
              SelectSeq(src, LAMBDA r : /\ r.listed_in # None
                                        /\ r.listed_in # <<>>
                                        /\ Strip(r.listed_in) # <<>>), 1)
  IN CategoryRows(df)

\* ---------------------------------------- categories_titles: the resolver
\* TitlesRepository.get_by_code: an exception is caught and [] is returned.
get_by_code(code, failed, fault) ==
  IF failed \/ fault THEN {} ELSE {t \in TitleRows : t.code = code}

\* CategoriesTitlesController._get_title_id_by_code; id 0 stands for None.
_get_title_id_by_code(show_id, cache, failed, fault, aborts) ==
  IF show_id \in DOMAIN cache
  THEN [id |-> cache[show_id], cache |-> cache, failed |-> failed]
  ELSE LET existing_title == get_by_code(show_id, failed, fault)
           failed2 == failed \/ (fault /\ aborts)
       IN IF existing_title # {}
          THEN LET title_id == (CHOOSE t \in existing_title : TRUE).title_id
               IN [id |-> title_id,
                   cache |-> CachePut(cache, show_id, title_id),
                   failed |-> failed2]
          ELSE [id |-> 0, cache |-> cache, failed |-> failed2]

\* CategoriesRepository.get_by_description: the ids of the matching rows
get_by_description(C, description) ==
  {i \in DOMAIN C : C[i] = description}

\* CategoriesTitlesController._get_or_create_category: every outcome.  point
\* names the store error that can hit this call's repository calls; the
\* fallback call for "unknown" has its own.  CategoriesRepository does not
\* roll back, so after an error inside the transaction the fallback raises
\* as well.
RECURSIVE _get_or_create_category(_, _, _, _, _, _, _)
_get_or_create_category(category_name, point, C, cache, failed, F, aborts) ==
  LET name == Strip(IF category_name = None \/ Strip(category_name) = <<>>
                    THEN Unknown ELSE category_name)
      existing_category == get_by_description(C, name)
      category_id == Len(C) + 1
  IN IF name \in DOMAIN cache
     THEN {[id |-> cache[name], categories |-> C, cache |-> cache,
            failed |-> failed, raised |-> FALSE]}
     ELSE IF failed \/ point \in F
     THEN IF name # Unknown
          THEN _get_or_create_category(Unknown, "unknown", C, cache,
                                       failed \/ aborts, F, aborts)
          ELSE {[id |-> 0, categories |-> C, cache |-> cache,
                 failed |-> failed \/ aborts, raised |-> TRUE]}
     ELSE IF existing_category # {}
     THEN {[id |-> i, categories |-> C, cache |-> CachePut(cache, name, i),
            failed |-> FALSE, raised |-> FALSE] : i \in existing_category}
     ELSE {[id |-> category_id, categories |-> Append(C, name),
            cache |-> CachePut(cache, name, category_id),
            failed |-> FALSE, raised |-> FALSE]}

\* CategoriesTitlesRepository.get_by_category_and_title
get_by_category_and_title(rel, category_id, title_id) ==
  {i \in DOMAIN rel : /\ rel[i].category_id = category_id
                      /\ rel[i].title_id = title_id}

\* populate_categories_titles_table_from_temp, the body of the loop from
\* _get_or_create_category to categories_titles_repo.create, for one outcome
\* g of _get_or_create_category.  kind is where the body stands afterwards:
\* "raised" (the except branch: continue), else the _mark_as_processed call
\* of the branch taken.
LinkCategory(base, g, title_id, F, aborts) ==
  LET b == [base EXCEPT !.categories = g.categories,
                        !.category_cache = g.cache, !.failed = g.failed]
      existing_relationship ==
        get_by_category_and_title(b.categories_titles, g.id, title_id)
  IN IF g.raised THEN [b EXCEPT !.kind = "raised"]
     ELSE IF g.failed \/ "exists" \in F
     THEN [b EXCEPT !.kind = "raised", !.failed = g.failed \/ aborts]
     ELSE IF existing_relationship # {}
     THEN [b EXCEPT !.kind = "exists", !.c = increment_skipped(@)]
     ELSE IF "create" \in F
     THEN [b EXCEPT !.kind = "raised", !.failed = aborts]
     ELSE [b EXCEPT !.kind = "created", !.c = increment_created(@),
                    !.categories_titles =
                       Append(@, [category_id |-> g.id,
                                  title_id |-> title_id])]

\* The body of the loop for one record up to its _mark_as_processed call:
\* every outcome under the store errors F.
HandleRecord(row, c, F, aborts) ==
  LET t == _get_title_id_by_code(row.show_id, cat_title_cache, conn_failed,
                                 "title" \in F, aborts)
      base == [kind |-> "title_miss", c |-> c, categories |-> categories,
               category_cache |-> category_cache, cat_title_cache |-> t.cache,
               categories_titles |-> categories_titles, failed |-> t.failed]
  IN IF t.id = 0 THEN {base}
     ELSE {LinkCategory(base, g, t.id, F, aborts) :
             g \in _get_or_create_category(row.category_name, "category",
                                           categories, category_cache,
                                           t.failed, F, aborts)}

\* ------------------------------------------- categories_titles: the drain
\* `if self.records_processed % 10 == 0`
ProgressEvery == 10

CatOp(run_id, exc, c) ==
  [op |-> "populate_categories_titles_table_from_temp", run |-> run_id,
   exc |-> exc,
   totals |-> <<c.records_processed, c.records_created, c.records_skipped>>]

\* populate_categories_titles_table_from_temp up to the loop: the run is
\* started, the status query and the load of the unprocessed records run on
\* connections of their own.
CatDrainStart ==
  /\ Idle
  /\ Len(processing_status) < MaxRuns
  /\ ctl["CategoriesTitlesController"].records_processed < MaxCount
  /\ \E F \in FaultSets({"start", "status", "load", "finish"}) :
     \E aborts \in Aborts(F) :
       LET k == "CategoriesTitlesController"
           T1 == start_processing_run(TrackerState(k, aborts),
                                      "categories_titles", "start" \notin F)
           run_id == IF "start" \in F \/ conn_failed THEN 0
                     ELSE T1.c.current_run_id
           temp_records == SortedIds(Unprocessed(temp_categories_titles))
           raised == "status" \in F \/ "load" \in F
           R == IF raised
                THEN fail_processing_run(T1, <<"StoreError">>,
                                         "finish" \notin F)
                ELSE IF temp_records = <<>>
                THEN complete_processing_run(T1, 0, "finish" \notin F)
                ELSE Returned(T1)
       IN /\ processing_status' = R.t.ps
          /\ ctl' = [ctl EXCEPT ![k] = R.t.c]
          /\ now' = R.t.now
          /\ conn_failed' = R.t.failed
          /\ faultsLeft' = faultsLeft - Cardinality(F)
          /\ hist' = [hist EXCEPT !.raisedIds = {}, !.titleMiss = {},
                                  !.linked = {}]
          /\ IF raised \/ temp_records = <<>>
             THEN /\ cdrain' = NoCatDrain
                  /\ lastOp' = CatOp(run_id,
                                     IF raised THEN "StoreError" ELSE "none",
                                     R.t.c)
             ELSE /\ cdrain' = [pc |-> "loop", run_id |-> run_id,
                                temp_records |-> temp_records,
                                kind |-> "none",
                                cleanStart |-> ~R.t.failed]
                  /\ lastOp' = CatOp(0, "running", R.t.c)
  /\ UNCHANGED <<actorVars, catStoreVars, category_cache, cat_title_cache>>

\* One record of the loop, from increment_processed to the commit of
\* categories_titles_repo.create (or to the branch that skips the record).
\* The repositories commit on the shared connection; the record's processed
\* flag is written afterwards, in a transaction of its own (CatMark).
CatResolve ==
  /\ cdrain.pc = "loop"
  /\ cdrain.temp_records # <<>>
  /\ LET k == "CategoriesTitlesController"
         record_id == Head(cdrain.temp_records)
         row == temp_categories_titles[record_id]
     IN \E F \in FaultSets({"title", "category", "unknown", "exists",
                            "create"}) :
        \E aborts \in Aborts(F) :
        \E h \in HandleRecord(row, increment_processed(ctl[k]), F, aborts) :
          /\ faultsLeft' = faultsLeft - Cardinality(F)
          /\ ctl' = [ctl EXCEPT ![k] = h.c]
          /\ categories' = h.categories
          /\ categories_titles' = h.categories_titles
          /\ category_cache' = h.category_cache
          /\ cat_title_cache' = h.cat_title_cache
          /\ conn_failed' = h.failed
          /\ cdrain' = IF h.kind = "raised"
                       THEN [cdrain EXCEPT !.temp_records = Tail(@)]
                       ELSE [cdrain EXCEPT !.pc = "mark", !.kind = h.kind]
          /\ hist' = [hist EXCEPT
               !.raisedIds = IF h.kind = "raised"
                             THEN @ \cup {record_id} ELSE @,
               !.titleMiss = IF /\ h.kind = "title_miss"
                                /\ F = {}
                                /\ cdrain.cleanStart
                             THEN @ \cup {record_id} ELSE @,
               !.linked = IF h.kind = "created"
                          THEN @ \cup {record_id} ELSE @]
  /\ UNCHANGED <<moreStoreVars,
                 actorVars, temp_categories_titles, temp_categories,
                 temp_director, directors, temp_actors, processing_status, now,
                 lastOp>>

\* CategoriesTitlesController._mark_as_processed for the record at hand (a
\* store error is printed and swallowed), increment_skipped where the branch
\* calls it after the mark, and, on the branch that created a relationship,
\* the progress update of every tenth record.
CatMark ==
  /\ cdrain.pc = "mark"
  /\ LET k == "CategoriesTitlesController"
         record_id == Head(cdrain.temp_records)
         c == IF cdrain.kind = "title_miss" THEN increment_skipped(ctl[k])
              ELSE ctl[k]
         due == /\ cdrain.kind = "created"
                /\ c.records_processed % ProgressEvery = 0
     IN \E F \in FaultSets({"mark"} \cup
                           (IF due THEN {"progress"} ELSE {})) :
        \E aborts \in Aborts(F \ {"mark"}) :
          LET T == [TrackerState(k, aborts) EXCEPT !.c = c]
              T1 == IF due
                    THEN update_processing_progress(T, "processing",
                                                    NoMessage,
                                                    "progress" \notin F)
                    ELSE T
          IN /\ temp_categories_titles' =
                  IF "mark" \in F THEN temp_categories_titles
                  ELSE [temp_categories_titles EXCEPT
                          ![record_id].processed = TRUE]
             /\ processing_status' = T1.ps
             /\ ctl' = [ctl EXCEPT ![k] = T1.c]
             /\ now' = T1.now
             /\ conn_failed' = T1.failed
             /\ faultsLeft' = faultsLeft - Cardinality(F)
  /\ cdrain' = [cdrain EXCEPT !.pc = "loop", !.kind = "none",
                              !.temp_records = Tail(@)]
  /\ UNCHANGED <<moreStoreVars,
                 actorVars, temp_categories, temp_director, directors, temp_actors,
                 categories, categories_titles,
                 category_cache, cat_title_cache, lastOp, hist>>

\* After the last record: the summary is printed, the run is completed and
\* the call returns.
CatDrainFinish ==
  /\ cdrain.pc = "loop"
  /\ cdrain.temp_records = <<>>
  /\ \E F \in FaultSets({"finish"}) :
     \E aborts \in Aborts(F) :
       LET k == "CategoriesTitlesController"
           R == complete_processing_run(TrackerState(k, aborts), 0,
                                        "finish" \notin F)
       IN /\ processing_status' = R.t.ps
          /\ ctl' = [ctl EXCEPT ![k] = R.t.c]
          /\ now' = R.t.now
          /\ conn_failed' = R.t.failed
          /\ faultsLeft' = faultsLeft - Cardinality(F)
          /\ lastOp' = CatOp(cdrain.run_id, "none", R.t.c)
  /\ cdrain' = NoCatDrain
  /\ UNCHANGED <<actorVars, catStoreVars, category_cache, cat_title_cache,
                 hist>>

\* The process running the category drain is stopped between two
\* transactions; the tables stay as committed.
CatInterrupt ==
  /\ cdrain.pc \in {"loop", "mark"}
  /\ cdrain' = NoCatDrain
  /\ ctl' = [k \in Controllers |-> NewController]
  /\ category_cache' = <<>>
  /\ cat_title_cache' = <<>>
  /\ people_cache' = <<>>
  /\ title_cache' = <<>>
  /\ conn_failed' = FALSE
  /\ lastOp' = [op |-> "populate_categories_titles_table_from_temp",
                run |-> 0, exc |-> "stopped", totals |-> <<0, 0, 0>>]
  /\ UNCHANGED <<storeVars, drain, loads, catStoreVars, processing_status,
                 now, faultsLeft, hist>>

\* ------------------------------------------------------------------- Init
\* The state after construction, the staging table of ActorsTitlesController
\* left open.
InitButStaging ==
  /\ temp_categories = {}
  /\ temp_director = <<>>
  /\ directors = <<>>
  /\ temp_actors = <<>>
  /\ temp_titles = <<>>
  /\ titles = <<>>
  /\ temp_title_types = <<>>
  /\ title_types = <<>>
  /\ builders = [b \in Builders |-> NewBuilder]
  /\ categories = <<>>
  /\ categories_titles = <<>>
  /\ category_cache = <<>>
  /\ cat_title_cache = <<>>
  /\ cdrain = NoCatDrain
  /\ temp_actor_titles = <<>>
  /\ people = <<>>
  /\ actors = <<>>
  /\ actors_titles = <<>>
  /\ processing_status = <<>>
  /\ ctl = [k \in Controllers |-> NewController]
  /\ people_cache = <<>>
  /\ title_cache = <<>>
  /\ drain = NoDrain
  /\ conn_failed = FALSE
  /\ now = 1
  /\ loads = 0
  /\ lastOp = NoOp
  /\ hist = NoHist

InitCommon ==
  /\ InitButStaging
  /\ temp_actors_titles = <<>>

\* ------------------------------------------- the Run Tracker behaviours
InitTracker ==
  /\ InitCommon
  /\ temp_netflix_titles \in Sources
  /\ temp_categories_titles = <<>>
  /\ faultsLeft = MaxFaults

NextTracker ==
  \/ create_temp_actors_titles_table
  \/ create_temp_actor_titles_table
  \/ LoadCsv

SpecTracker == InitTracker /\ [][NextTracker]_vars


\* C9: once a RunRecord is completed or failed, no later Run Tracker call
\* changes its status, counters, end_time or error_message.
RunRecordTerminality ==
  [][\A i \in DOMAIN processing_status :
       processing_status[i].status \in Terminal
         => processing_status'[i] = processing_status[i]]_vars

\* C10: when a stage or populate operation has returned or raised, the
\* RunRecord it started is completed or failed.
EveryRunFinalized ==
  lastOp.run # 0 => processing_status[lastOp.run].status \in Terminal


\* --------------------------------------- the actors_titles behaviours
InitActors ==
  /\ InitCommon
  /\ temp_netflix_titles \in Sources
  /\ temp_categories_titles = <<>>
  /\ faultsLeft = MaxFaults

NextActors ==
  \/ LoadCsv
  \/ create_temp_actors_titles_table
  \/ DrainStart
  \/ FetchPage
  \/ ProcessRecord
  \/ DrainFinish
  \/ Interrupt
  \/ Restart

SpecActors == InitActors /\ [][NextActors]_vars


Populate == "populate_actors_titles_table_from_temp"

\* C1: when populate_actors_titles_table_from_temp returns normally and no
\* store error occurred, no candidate is left with processed = false.
DrainCompleteness ==
  (lastOp.op = Populate /\ lastOp.exc = "none" /\ ~hist.faulted)
    => PendingIds(temp_actors_titles) = {}

\* C2: the junction table holds at most one row per (entity_id, title_id).
RelationshipUnique ==
  \A i, j \in DOMAIN actors_titles :
    i # j => actors_titles[i] # actors_titles[j]

\* C2 witness: a drain handled two candidates of one title that resolve to
\* the same person; the second was skipped as an existing relationship.
RelationshipUniqueWitness ==
  /\ lastOp.op = Populate /\ lastOp.exc = "none" /\ ~hist.faulted
  /\ lastOp.totals = <<2, 1, 1>>
  /\ Len(actors_titles) = 1
  /\ \A i \in DOMAIN temp_actors_titles : temp_actors_titles[i].show_id = "s1"

\* C3: a drain run to completion after an interrupted one processes exactly
\* the candidates that were still unprocessed when it started.
ResumeProcessesRemaining ==
  (lastOp.op = Populate /\ lastOp.exc = "none" /\ ~hist.faulted
     /\ hist.resumedAtStart)
    => hist.handled = hist.startUnprocessed

\* C4: draining a staging table whose candidates are all processed inserts no
\* relationship, marks nothing and reports zero processed, created, skipped.
IdempotentRedrain ==
  (lastOp.op = Populate /\ lastOp.exc = "none" /\ hist.startUnprocessed = {})
    => /\ actors_titles = hist.relAtStart
       /\ temp_actors_titles = hist.tempAtStart
       /\ hist.handled = {}
       /\ lastOp.totals = <<0, 0, 0>>
       /\ (lastOp.run # 0 /\ processing_status[lastOp.run].status = "completed")
            => /\ processing_status[lastOp.run].records_processed = 0
               /\ processing_status[lastOp.run].records_created = 0
               /\ processing_status[lastOp.run].records_skipped = 0

\* C4 witness: a drain returned on a non-empty, fully processed staging table
\* with relationships in place.
IdempotentRedrainWitness ==
  /\ lastOp.op = Populate /\ lastOp.exc = "none"
  /\ hist.startUnprocessed = {}
  /\ temp_actors_titles # <<>>
  /\ actors_titles # <<>>
  /\ lastOp.run # 0 /\ processing_status[lastOp.run].status = "completed"

\* C5: absent store errors, resolving the same person name any number of
\* times, within one drain and across drains, returns the same id, and that
\* id has exactly one person row and one actor row.
SameNameSameEntity ==
  faultsLeft = MaxFaults =>
    /\ \A p, q \in hist.resolved : p[1] = q[1] => p[2] = q[2]
    /\ \A p \in hist.resolved :
         /\ p[2] \in DOMAIN people
         /\ Cardinality({i \in DOMAIN actors : actors[i] = p[2]}) = 1

\* ----------------------------------- the categories_titles behaviours
\* The staging table is the one create_temp_categories_titles_table leaves
\* for the loaded source.
InitCats ==
  /\ InitCommon
  /\ temp_netflix_titles \in CatSources
  /\ temp_categories_titles = category_records(temp_netflix_titles)
  /\ faultsLeft = MaxFaults

NextCats ==
  \/ CatDrainStart
  \/ CatResolve
  \/ CatMark
  \/ CatDrainFinish
  \/ CatInterrupt
  \/ Restart

SpecCats == InitCats /\ [][NextCats]_vars

\* C6: a candidate whose handling raised an unexpected exception is marked
\* processed once its handling is over, so no later drain selects it again.
MarkProcessedAlways ==
  \A id \in hist.raisedIds : temp_categories_titles[id].processed

\* C7: a store error while one candidate is handled does not change the
\* outcome of a later candidate of the drain: a candidate handled without an
\* error of its own is reported "title not found" only if public.titles has
\* no row for its show_id.
FailureIsolation ==
  \A id \in hist.titleMiss :
    \A t \in TitleRows : t.code # temp_categories_titles[id].show_id

\* C8: wherever the drain can be stopped between two transactions, a
\* candidate whose own handling committed a relationship row has its
\* processed flag set.
NoHalfAppliedCandidate ==
  \A id \in hist.linked : temp_categories_titles[id].processed

\* C11: when populate_actors_titles_table_from_temp completes its run, the
\* RunRecord's records_processed, records_created and records_skipped are the
\* numbers of candidates the drain processed, created and skipped.
RunCountersAreAggregates ==
  (/\ lastOp.op = Populate /\ lastOp.exc = "none" /\ lastOp.run # 0
   /\ processing_status[lastOp.run].status = "completed")
    => <<processing_status[lastOp.run].records_processed,
         processing_status[lastOp.run].records_created,
         processing_status[lastOp.run].records_skipped>> = lastOp.totals

\* ---------------------------------------------- CategoriesController
\* category names of the test data
Dramas == <<"D", "r", "a", "m", "a", "s">>
TVDramas == <<"T", "V", " ">> \o Dramas
Drama == <<"D", "r", "a", "m", "a">>

\* rows of temp_netflix_titles for the behaviours of both category
\* controllers
GenreRows ==
  { [show_id |-> "s1", cast |-> None, listed_in |-> Dramas],
    [show_id |-> "s2", cast |-> None,
     listed_in |-> TVDramas \o <<",", " ">> \o Drama] }

GenreSources ==
  {<<a>> : a \in GenreRows}
    \cup {<<p[1], p[2]>> :
            p \in {q \in GenreRows \X GenreRows : q[1].show_id # q[2].show_id}}

\* CategoriesController.normalize_category_name: the dict normalization_rules
\* as <<key, value>> pairs
normalization_rules ==
  {
    <<<<"S", "t", "a", "n", "d", "-", "U", "p", " ", "C", "o", "m", "e", "d", "y", " ", "&", " ", "T", "a", "l", "k", " ", "S", "h", "o", "w", "s">>,
      <<"T", "a", "l", "k", " ", "S", "h", "o", "w", "s">>>>,
    <<<<"S", "t", "a", "n", "d", "-", "U", "p", " ", "C", "o", "m", "e", "d", "y">>,
      <<"C", "o", "m", "e", "d", "y">>>>,
    <<<<"T", "V", " ", "A", "c", "t", "i", "o", "n", " ", "&", " ", "A", "d", "v", "e", "n", "t", "u", "r", "e">>,
      <<"A", "c", "t", "i", "o", "n", " ", "&", " ", "A", "d", "v", "e", "n", "t", "u", "r", "e">>>>,
    <<<<"T", "V", " ", "C", "o", "m", "e", "d", "i", "e", "s">>,
      <<"C", "o", "m", "e", "d", "y">>>>,
    <<<<"T", "V", " ", "D", "r", "a", "m", "a", "s">>,
      <<"D", "r", "a", "m", "a">>>>,
    <<<<"T", "V", " ", "H", "o", "r", "r", "o", "r">>,
      <<"H", "o", "r", "r", "o", "r">>>>,
    <<<<"T", "V", " ", "M", "y", "s", "t", "e", "r", "i", "e", "s">>,
      <<"M", "y", "s", "t", "e", "r", "y">>>>,
    <<<<"T", "V", " ", "S", "c", "i", "-", "F", "i", " ", "&", " ", "F", "a", "n", "t", "a", "s", "y">>,
      <<"S", "c", "i", "-", "F", "i", " ", "&", " ", "F", "a", "n", "t", "a", "s", "y">>>>,
    <<<<"T", "V", " ", "T", "h", "r", "i", "l", "l", "e", "r", "s">>,
      <<"T", "h", "r", "i", "l", "l", "e", "r">>>>,
    <<<<"C", "o", "m", "e", "d", "i", "e", "s">>,
      <<"C", "o", "m", "e", "d", "y">>>>,
    <<<<"D", "r", "a", "m", "a", "s">>,
      <<"D", "r", "a", "m", "a">>>>,
    <<<<"D", "o", "c", "u", "m", "e", "n", "t", "a", "r", "i", "e", "s">>,
      <<"D", "o", "c", "u", "m", "e", "n", "t", "a", "r", "y">>>>,
    <<<<"T", "h", "r", "i", "l", "l", "e", "r", "s">>,
      <<"T", "h", "r", "i", "l", "l", "e", "r">>>>,
    <<<<"A", "c", "t", "i", "o", "n", " ", "&", " ", "A", "d", "v", "e", "n", "t", "u", "r", "e">>,
      <<"A", "c", "t", "i", "o", "n", " ", "&", " ", "A", "d", "v", "e", "n", "t", "u", "r", "e">>>>,
    <<<<"H", "o", "r", "r", "o", "r", " ", "M", "o", "v", "i", "e", "s">>,
      <<"H", "o", "r", "r", "o", "r">>>>,
    <<<<"R", "o", "m", "a", "n", "t", "i", "c", " ", "M", "o", "v", "i", "e", "s">>,
      <<"R", "o", "m", "a", "n", "c", "e">>>>,
    <<<<"S", "p", "o", "r", "t", "s", " ", "M", "o", "v", "i", "e", "s">>,
      <<"S", "p", "o", "r", "t", "s">>>>,
    <<<<"C", "l", "a", "s", "s", "i", "c", " ", "M", "o", "v", "i", "e", "s">>,
      <<"C", "l", "a", "s", "s", "i", "c">>>>,
    <<<<"I", "n", "d", "e", "p", "e", "n", "d", "e", "n", "t", " ", "M", "o", "v", "i", "e", "s">>,
      <<"I", "n", "d", "e", "p", "e", "n", "d", "e", "n", "t">>>>,
    <<<<"I", "n", "t", "e", "r", "n", "a", "t", "i", "o", "n", "a", "l", " ", "M", "o", "v", "i", "e", "s">>,
      <<"I", "n", "t", "e", "r", "n", "a", "t", "i", "o", "n", "a", "l">>>>,
    <<<<"C", "u", "l", "t", " ", "M", "o", "v", "i", "e", "s">>,
      <<"C", "u", "l", "t">>>>,
    <<<<"L", "G", "B", "T", "Q", " ", "M", "o", "v", "i", "e", "s">>,
      <<"L", "G", "B", "T", "Q">>>>,
    <<<<"B", "r", "i", "t", "i", "s", "h", " ", "T", "V", " ", "S", "h", "o", "w", "s">>,
      <<"B", "r", "i", "t", "i", "s", "h">>>>,
    <<<<"C", "r", "i", "m", "e", " ", "T", "V", " ", "S", "h", "o", "w", "s">>,
      <<"C", "r", "i", "m", "e">>>>,
    <<<<"I", "n", "t", "e", "r", "n", "a", "t", "i", "o", "n", "a", "l", " ", "T", "V", " ", "S", "h", "o", "w", "s">>,
      <<"I", "n", "t", "e", "r", "n", "a", "t", "i", "o", "n", "a", "l">>>>,
    <<<<"K", "o", "r", "e", "a", "n", " ", "T", "V", " ", "S", "h", "o", "w", "s">>,
      <<"K", "o", "r", "e", "a", "n">>>>,
    <<<<"R", "o", "m", "a", "n", "t", "i", "c", " ", "T", "V", " ", "S", "h", "o", "w", "s">>,
      <<"R", "o", "m", "a", "n", "c", "e">>>>,
    <<<<"S", "p", "a", "n", "i", "s", "h", "-", "L", "a", "n", "g", "u", "a", "g", "e", " ", "T", "V", " ", "S", "h", "o", "w", "s">>,
      <<"S", "p", "a", "n", "i", "s", "h">>>>,
    <<<<"T", "e", "e", "n", " ", "T", "V", " ", "S", "h", "o", "w", "s">>,
      <<"T", "e", "e", "n">>>>,
    <<<<"T", "V", " ", "S", "h", "o", "w", "s">>,
      <<"G", "e", "n", "e", "r", "a", "l", " ", "T", "V">>>>,
    <<<<"C", "h", "i", "l", "d", "r", "e", "n", " ", "&", " ", "F", "a", "m", "i", "l", "y", " ", "M", "o", "v", "i", "e", "s">>,
      <<"F", "a", "m", "i", "l", "y">>>>,
    <<<<"K", "i", "d", "s", "'", " ", "T", "V">>,
      <<"K", "i", "d", "s">>>>,
    <<<<"C", "l", "a", "s", "s", "i", "c", " ", "&", " ", "C", "u", "l", "t", " ", "T", "V">>,
      <<"C", "l", "a", "s", "s", "i", "c">>>>,
    <<<<"S", "c", "i", "e", "n", "c", "e", " ", "&", " ", "N", "a", "t", "u", "r", "e", " ", "T", "V">>,
      <<"S", "c", "i", "e", "n", "c", "e", " ", "&", " ", "N", "a", "t", "u", "r", "e">>>>,
    <<<<"M", "u", "s", "i", "c", " ", "&", " ", "M", "u", "s", "i", "c", "a", "l", "s">>,
      <<"M", "u", "s", "i", "c">>>>,
    <<<<"F", "a", "i", "t", "h", " ", "&", " ", "S", "p", "i", "r", "i", "t", "u", "a", "l", "i", "t", "y">>,
      <<"F", "a", "i", "t", "h">>>>,
    <<<<"A", "n", "i", "m", "e", " ", "F", "e", "a", "t", "u", "r", "e", "s">>,
      <<"A", "n", "i", "m", "e">>>>,
    <<<<"A", "n", "i", "m", "e", " ", "S", "e", "r", "i", "e", "s">>,
      <<"A", "n", "i", "m", "e">>>>,
    <<<<"R", "e", "a", "l", "i", "t", "y", " ", "T", "V">>,
      <<"R", "e", "a", "l", "i", "t", "y">>>>,
    <<<<"D", "o", "c", "u", "s", "e", "r", "i", "e", "s">>,
      <<"D", "o", "c", "u", "m", "e", "n", "t", "a", "r", "y">>>>
  }

\* CategoriesController.normalize_category_name
normalize_category_name(category_name) ==
  LET normalized == Strip(category_name)
  IN IF \E r \in normalization_rules : r[1] = normalized
     THEN (CHOOSE r \in normalization_rules : r[1] = normalized)[2]
     ELSE normalized

\* CategoriesController.create_temp_categories_table, the loop: the set of
\* the cleaned category names (list(set(...)); the table has no id column,
\* so the sort leaves no trace).
categories_list(records) ==
  UNION { {Strip(tok) : tok \in SeqToSet(SplitComma(records[i].listed_in))}
            \ {<<>>} :
          i \in {j \in DOMAIN records : /\ Truthy(records[j].listed_in)
                                        /\ records[j].listed_in # Unknown} }

\* CategoriesController.create_temp_categories_table, the whole call.  The
\* source is read through the shared DBConnection; the table is replaced
\* through a connection of its own.
create_temp_categories_table ==
  /\ Idle
  /\ Len(processing_status) < MaxRuns
  /\ \E F \in FaultSets({"start", "read", "write", "finish"}) :
     \E aborts \in Aborts(F) :
       LET k == "CategoriesController"
           T1 == start_processing_run(TrackerState(k, aborts),
                                      "temp_categories", "start" \notin F)
           run_id == IF "start" \in F \/ conn_failed THEN 0
                     ELSE T1.c.current_run_id
           readRaised == "read" \in F \/ T1.failed
           bodyRaised == readRaised \/ "write" \in F
           R == IF bodyRaised
                THEN fail_processing_run(
                       IF readRaised THEN AfterError(T1) ELSE T1,
                       <<"StoreError">>, "finish" \notin F)
                ELSE complete_processing_run(T1, 0, "finish" \notin F)
       IN /\ temp_categories' =
               IF bodyRaised THEN temp_categories
               ELSE {[category_name |-> c, processed |-> FALSE] :
                       c \in categories_list(temp_netflix_titles)}
          /\ processing_status' = R.t.ps
          /\ ctl' = [ctl EXCEPT ![k] = R.t.c]
          /\ now' = R.t.now
          /\ conn_failed' = R.t.failed
          /\ faultsLeft' = faultsLeft - Cardinality(F)
          /\ lastOp' = [op |-> "create_temp_categories_table", run |-> run_id,
                        exc |-> IF bodyRaised THEN "StoreError" ELSE "none",
                        totals |-> <<0, 0, 0>>]
  /\ UNCHANGED <<moreStoreVars,
                 actorVars, temp_categories_titles, temp_director, directors,
                 temp_actors, categories, categories_titles, category_cache,
                 cat_title_cache, cdrain, hist>>

\* mark_as_processed_by_category_name: UPDATE ... WHERE category_name = :n
mark_as_processed_by_category_name(table, category_name) ==
  {IF r.category_name = category_name THEN [r EXCEPT !.processed = TRUE]
   ELSE r : r \in table}

\* populate_categories_table_from_temp, the loop over the records `order`
\* from record number n on.  st = [categories, temp, t, raised]; t is the
\* tracker state.  recordAt / markAt are the numbers of the records at which
\* a repository call / the mark raises (0: none).
RECURSIVE CategoriesLoop(_, _, _, _, _)
CategoriesLoop(order, n, st, recordAt, markAt) ==
  IF n > Len(order) \/ st.raised THEN st
  ELSE
    LET category_name == order[n]
        t1 == [st.t EXCEPT !.c = increment_processed(@)]
        normalized_name == normalize_category_name(category_name)
        existing == get_by_description(st.categories, normalized_name)
        t2 == [t1 EXCEPT !.c = IF existing = {} THEN increment_created(@)
                                ELSE increment_skipped(@)]
        created == IF existing = {} THEN Append(st.categories, normalized_name)
                   ELSE st.categories
        t3 == IF t2.c.records_processed % ProgressEvery = 0
              THEN update_processing_progress(t2, "processing", NoMessage, TRUE)
              ELSE t2
    IN IF t1.failed \/ recordAt = n
       THEN [st EXCEPT !.t = AfterError(t1), !.raised = TRUE]
       ELSE IF markAt = n
       THEN [st EXCEPT !.t = t2, !.categories = created, !.raised = TRUE]
       ELSE CategoriesLoop(order, n + 1,
              [st EXCEPT !.t = t3, !.categories = created,
                         !.temp = mark_as_processed_by_category_name(
                                    @, category_name)],
              recordAt, markAt)

\* CategoriesController.populate_categories_table_from_temp, the whole call.
\* ORDER BY category_name follows the collation of the database: any order.
populate_categories_table_from_temp ==
  /\ Idle
  /\ Len(processing_status) < MaxRuns
  /\ ctl["CategoriesController"].records_processed < MaxCount
  /\ \E F \in FaultSets({"start", "load", "record", "mark", "finish"}) :
     \E aborts \in Aborts(F) :
     \E order \in RowOrders({r.category_name :
                               r \in {x \in temp_categories : ~x.processed}}) :
     \E at \in (IF F \cap {"record", "mark"} = {} THEN {0}
                ELSE 1..Len(order)) :
       LET k == "CategoriesController"
           T1 == start_processing_run(TrackerState(k, aborts), "categories",
                                      "start" \notin F)
           run_id == IF "start" \in F \/ conn_failed THEN 0
                     ELSE T1.c.current_run_id
           st0 == [categories |-> categories, temp |-> temp_categories,
                   t |-> T1, raised |-> "load" \in F]
           st == CategoriesLoop(order, 1, st0,
                                IF "record" \in F THEN at ELSE 0,
                                IF "mark" \in F THEN at ELSE 0)
           R == IF st.raised
                THEN fail_processing_run(st.t, <<"StoreError">>,
                                         "finish" \notin F)
                ELSE complete_processing_run(st.t, 0, "finish" \notin F)
       IN /\ categories' = st.categories
          /\ temp_categories' = st.temp
          /\ processing_status' = R.t.ps
          /\ ctl' = [ctl EXCEPT ![k] = R.t.c]
          /\ now' = R.t.now
          /\ conn_failed' = R.t.failed
          /\ faultsLeft' = faultsLeft - Cardinality(F)
          /\ lastOp' = [op |-> "populate_categories_table_from_temp",
                        run |-> run_id,
                        exc |-> IF st.raised THEN "StoreError" ELSE "none",
                        totals |-> <<R.t.c.records_processed,
                                     R.t.c.records_created,
                                     R.t.c.records_skipped>>]
  /\ UNCHANGED <<moreStoreVars,
                 actorVars, temp_categories_titles, temp_director, directors,
                 temp_actors, categories_titles, category_cache,
                 cat_title_cache, cdrain, hist>>

\* --------------------------------- the behaviours of both category
\* controllers: the entity drain and the relationship drain on one store
InitCategories ==
  /\ InitCommon
  /\ temp_netflix_titles \in GenreSources
  /\ temp_categories_titles = category_records(temp_netflix_titles)
  /\ faultsLeft = MaxFaults

NextCategories ==
  \/ create_temp_categories_table
  \/ populate_categories_table_from_temp
  \/ CatDrainStart
  \/ CatResolve
  \/ CatMark
  \/ CatDrainFinish
  \/ Restart

SpecCategories == InitCategories /\ [][NextCategories]_vars

\* C12: the categories table never holds two rows whose descriptions
\* normalize to the same value under normalize_category_name.
NaturalKeyUnique ==
  \A i, j \in DOMAIN categories :
    i # j => normalize_category_name(categories[i])
               # normalize_category_name(categories[j])

\* ------------------------------------- the name-variant behaviours
\* ActorTitlesController.normalize_name, the last two statements: canonical
\* decomposition, combining marks dropped
StripMarks(s) ==
  [i \in DOMAIN s |-> CASE s[i] = "á" -> "a" [] s[i] = "Á" -> "A"
                        [] OTHER -> s[i]]

\* ActorTitlesController.normalize_name
normalize_name(name) ==
  IF ~Truthy(name) THEN <<>>
  ELSE StripMarks(JoinSpace(Split(Lower(Strip(name)))))

\* spellings of one person name
AnLiUpper == <<"A", "N", " ", "L", "I">>
AnLiWide == <<"a", "n", " ", " ", "l", "i">>
AnLiAcute == <<"Á", "n", " ", "L", "i">>

NameRows ==
  { [show_id |-> "s1",
     cast |-> AnLi \o <<",">> \o AnLiUpper \o <<",", " ">> \o AnLiWide \o <<" ">>,
     listed_in |-> None],
    [show_id |-> "s1", cast |-> AnLi \o <<",">> \o AnLiAcute,
     listed_in |-> None],
    [show_id |-> "s2", cast |-> AnLiAcute \o <<",">> \o AnLiUpper,
     listed_in |-> None] }

NameSources == {<<r>> : r \in NameRows}

\* No store error is injected in these behaviours.
InitNames ==
  /\ InitCommon
  /\ temp_netflix_titles \in NameSources
  /\ temp_categories_titles = <<>>
  /\ faultsLeft = 0

NextNames ==
  \/ create_temp_actors_titles_table
  \/ DrainStart
  \/ FetchPage
  \/ ProcessRecord
  \/ DrainFinish
  \/ Restart

SpecNames == InitNames /\ [][NextNames]_vars

\* C13: person names that differ only in letter case, in surrounding or
\* repeated internal whitespace or in diacritics resolve to the same id.
NormalizationDeterminism ==
  \A p, q \in hist.resolved :
    normalize_name(p[1]) = normalize_name(q[1]) => p[2] = q[2]

\* --------------------------------- the duplicate-candidate behaviours
AnnaLee == <<"A", "n", "n", "a", " ", "L", "e", "e">>
BobChen == <<"B", "o", "b", " ", "C", "h", "e", "n">>

\* Sources whose staging holds the same (show_id, actor_name) pair twice.
DupSources ==
  { <<[show_id |-> "s1", cast |-> AnnaLee \o <<",", " ">> \o AnnaLee,
       listed_in |-> None],
      [show_id |-> "s2", cast |-> BobChen, listed_in |-> None]>>,
    <<[show_id |-> "s1", cast |-> AnnaLee \o <<",">> \o AnnaLee \o <<" ">>,
       listed_in |-> None]>> }

\* No store error is injected in these behaviours.
InitDup ==
  /\ InitCommon
  /\ temp_netflix_titles \in DupSources
  /\ temp_categories_titles = <<>>
  /\ faultsLeft = 0

NextDup ==
  \/ create_temp_actors_titles_table
  \/ DrainStart
  \/ FetchPage
  \/ ProcessRecord
  \/ DrainFinish
  \/ Restart

SpecDup == InitDup /\ [][NextDup]_vars

\* The (show_id, actor_name) pairs of a staging table.
CandidatePairs(table) ==
  {<<table[i].show_id, table[i].actor_name>> : i \in DOMAIN table}

\* The loop of a drain is over that started on a freshly staged table with
\* no relationship in place and reads the table as one page.
OnePageDrainDone ==
  /\ drain.pc = "page"
  /\ drain.offset >= drain.total_unprocessed
  /\ drain.batch_size >= Len(hist.tempAtStart)
  /\ hist.startUnprocessed = DOMAIN hist.tempAtStart
  /\ hist.relAtStart = <<>>

Bo == <<"B", "o">>
Cy == <<"C", "y">>
Li == <<"L", "i">>
Na == <<"N", "a">>

\* What parse_director_name returns for a blank name (Python None).
NotParsed == [parsed |-> FALSE]

\* parse_director_name with every name of more than two words split as
\* first name + the rest as last name.
parse_director_name_first_rest(full_name) ==
  IF ~Truthy(full_name) THEN NotParsed
  ELSE IF ~Truthy(Strip(full_name)) THEN NotParsed
  ELSE LET words == Split(Strip(full_name))
       IN [first_name |-> words[1],
           middle_name |-> None,
           last_name |-> IF Len(words) > 1 THEN JoinSpace(Tail(words))
                         ELSE None]

\* DirectorsController.parse_director_name
parse_director_name(full_name) ==
  IF ~Truthy(full_name) THEN NotParsed
  ELSE IF ~Truthy(Strip(full_name)) THEN NotParsed
  ELSE LET words == Split(Strip(full_name))
           word_count == Len(words)
       IN IF word_count = 3
          THEN [first_name |-> words[1],
                middle_name |-> words[2],
                last_name |-> IF Len(words) > 2
                              THEN JoinSpace(SubSeq(words, 3, Len(words)))
                              ELSE words[3]]
          ELSE IF word_count = 2
          THEN [first_name |-> words[1],
                middle_name |-> None,
                last_name |-> words[2]]
          ELSE IF word_count = 1
          THEN [first_name |-> words[1],
                middle_name |-> None,
                last_name |-> None]
          ELSE [first_name |-> words[1],
                middle_name |-> IF Len(words) > 1 THEN words[2] ELSE None,
                last_name |-> IF Len(words) > 2
                              THEN JoinSpace(SubSeq(words, 3, Len(words)))
                              ELSE None]

\* create_temp_director_table, the two loops down to the call of the parser:
\* the cleaned, non-empty names of the director columns, with their show_id.
RECURSIVE director_names(_)
director_names(records) ==
  IF records = <<>> THEN <<>>
  ELSE LET record == Head(records)
           director_column == record.director
           raw_director_names ==
             IF ~Truthy(director_column) THEN <<>>
             ELSE IF Strip(director_column)
                       \in {<<>>, Unknown, <<"U">> \o Tail(Unknown)}
             THEN <<>>
             ELSE SplitComma(director_column)
           clean == SelectSeq([i \in DOMAIN raw_director_names |->
                                 Strip(raw_director_names[i])],
                              LAMBDA n : n # <<>>)
       IN [i \in DOMAIN clean |->
             [show_id |-> record.show_id, name |-> clean[i]]]
          \o director_names(Tail(records))

\* DirectorsController.get_or_create_person: the outcomes.  A failing lookup
\* raises; a failing creation is caught and None (0) is returned.
\* existing_person[0] is any of the matching rows.
get_or_create_person(first_name, middle_name, last_name, P, lookupFails, createFails) ==
  LET existing_person == get_by_name(P, first_name, middle_name, last_name)
      person_data == [first_name |-> first_name, middle_name |-> middle_name,
                      last_name |-> last_name]
  IN IF lookupFails THEN {[id |-> 0, people |-> P, raised |-> TRUE]}
     ELSE IF existing_person # {}
     THEN {[id |-> id, people |-> P, raised |-> FALSE] :
             id \in existing_person}
     ELSE IF createFails THEN {[id |-> 0, people |-> P, raised |-> FALSE]}
     ELSE {[id |-> Len(P) + 1, people |-> Append(P, person_data),
            raised |-> FALSE]}

\* create_temp_director_table, the body of the inner loop from name i on:
\* every outcome [people, list, dropped, raised], a store error striking the
\* lookup of name lookupAt or the creation for name createAt.
RECURSIVE DirectorsLoop(_, _, _, _, _, _, _)
DirectorsLoop(names, i, P, list, dropped, lookupAt, createAt) ==
  IF i > Len(names)
  THEN {[people |-> P, list |-> list, dropped |-> dropped, raised |-> FALSE]}
  ELSE LET parsed_names == parse_director_name(names[i].name)
       IN IF parsed_names = NotParsed
          THEN DirectorsLoop(names, i + 1, P, list, dropped, lookupAt,
                             createAt)
          ELSE UNION {
            IF g.raised
            THEN {[people |-> g.people, list |-> list, dropped |-> dropped,
                   raised |-> TRUE]}
            ELSE IF g.id = 0
            THEN DirectorsLoop(names, i + 1, g.people, list, dropped + 1,
                               lookupAt, createAt)
            ELSE DirectorsLoop(
                   names, i + 1, g.people,
                   Append(list, [first_name |-> parsed_names.first_name,
                                 middle_name |-> parsed_names.middle_name,
                                 last_name |-> parsed_names.last_name,
                                 director_id |-> g.id,
                                 show_id |-> names[i].show_id,
                                 processed |-> FALSE]),
                   dropped, lookupAt, createAt) :
            g \in get_or_create_person(parsed_names.first_name,
                                       parsed_names.middle_name,
                                       parsed_names.last_name, P,
                                       i = lookupAt, i = createAt)}

\* DirectorsController.create_temp_director_table, the whole call.  The
\* source and the people table are reached through the shared DBConnection
\* (a created person is committed at once); the table is replaced through a
\* connection of its own, and only when there is a row to write.
create_temp_director_table ==
  /\ Idle
  /\ \E F \in FaultSets({"read", "lookup", "create", "write"}) :
     \E aborts \in Aborts(F \cap {"read", "lookup"}) :
     \E at \in IF F \cap {"lookup", "create"} = {} THEN {0}
               ELSE DOMAIN director_names(temp_netflix_titles) :
       LET readRaised == "read" \in F \/ conn_failed
           names == director_names(temp_netflix_titles)
       IN \E o \in IF readRaised
                   THEN {[people |-> people, list |-> <<>>, dropped |-> 0,
                          raised |-> TRUE]}
                   ELSE DirectorsLoop(names, 1, people, <<>>, 0,
                                      IF "lookup" \in F THEN at ELSE 0,
                                      IF "create" \in F THEN at ELSE 0) :
            LET writeRaised == ~o.raised /\ o.list # <<>> /\ "write" \in F
            IN /\ people' = o.people
               /\ temp_director' =
                    IF o.raised \/ writeRaised \/ o.list = <<>>
                    THEN temp_director ELSE o.list
               /\ conn_failed' = (conn_failed \/ (o.raised /\ aborts))
               /\ faultsLeft' = faultsLeft - Cardinality(F)
               /\ lastOp' = [op |-> "create_temp_director_table", run |-> 0,
                             exc |-> IF o.raised \/ writeRaised
                                     THEN "StoreError" ELSE "none",
                             totals |-> <<Len(names), Len(o.list),
                                          o.dropped>>]
  /\ UNCHANGED <<moreStoreVars, directors,
                 temp_netflix_titles, temp_actors_titles, temp_actor_titles,
                 actors, actors_titles, people_cache, title_cache, drain,
                 loads, temp_categories_titles, temp_categories, temp_actors,
                 categories, categories_titles, category_cache,
                 cat_title_cache, cdrain, processing_status, ctl, now, hist>>

\* ------------------------------------- the director stager's behaviours
DirectorWords == <<An, Bo, Cy, Li, Na>>

\* The first n words, sep between two of them.
RECURSIVE Spaced(_, _)
Spaced(n, sep) ==
  IF n = 1 THEN DirectorWords[1]
  ELSE Spaced(n - 1, sep) \o sep \o DirectorWords[n]

\* Director columns: names of one to five words with single or double
\* blanks, padded or not, lists of names, and columns without a name.
DirectorColumns ==
  {pad \o Spaced(n, sep) \o pad :
     n \in DOMAIN DirectorWords,
     sep \in {<<" ">>, <<" ", " ">>},
     pad \in {<<>>, <<" ">>}}
  \cup {Spaced(4, <<" ">>) \o <<",", " ">> \o Spaced(2, <<" ">>),
        Spaced(1, <<" ">>) \o <<",", ",">> \o Spaced(3, <<" ">>),
        Spaced(2, <<" ">>) \o <<",">> \o Spaced(2, <<" ", " ">>),
        Unknown, None, <<" ">>}

DirectorSources ==
  { <<[show_id |-> "s1", director |-> d, cast |-> None, listed_in |-> None]>> :
      d \in DirectorColumns }

InitDirectors ==
  /\ InitCommon
  /\ temp_netflix_titles \in DirectorSources
  /\ temp_categories_titles = <<>>
  /\ faultsLeft = MaxFaults

NextDirectors ==
  \/ create_temp_director_table
  \/ Restart

SpecDirectors == InitDirectors /\ [][NextDirectors]_vars

\* C15: the rows a director staging without a dropped name leaves carry,
\* name by name, the word-count split: one word is the first name alone, two
\* words first + last, three words first + middle + last, more than three
\* words first, second word as middle and the other words joined by single
\* blanks as last; middle and last are None when absent.
WordCountSplitting ==
  (/\ lastOp.op = "create_temp_director_table"
   /\ lastOp.exc = "none"
   /\ lastOp.totals[3] = 0)
    => LET names == director_names(temp_netflix_titles)
       IN /\ Len(temp_director) = Len(names)
          /\ \A i \in DOMAIN names :
               LET w == Split(names[i].name)
                   n == Len(w)
                   r == temp_director[i]
               IN /\ r.first_name = w[1]
                  /\ r.middle_name = (IF n >= 3 THEN w[2] ELSE None)
                  /\ r.last_name =
                       (IF n = 1 THEN None
                        ELSE IF n = 2 THEN w[2]
                        ELSE JoinSpace(SubSeq(w, 3, n)))

\* C15 witness: a name of more than three words was staged.
WordCountSplittingWitness ==
  /\ lastOp.op = "create_temp_director_table"
  /\ lastOp.exc = "none"
  /\ lastOp.totals[3] = 0
  /\ \E i \in DOMAIN temp_director :
       /\ Len(Split(director_names(temp_netflix_titles)[i].name)) > 3
       /\ Len(Split(temp_director[i].last_name)) > 1

\* ----------------------------------- ActorsController: the actor stager
\* ActorsController.create_temp_actors_table, the loop over one row
RECURSIVE ActorNames(_, _)
ActorNames(show_id, actor_names) ==
  IF actor_names = <<>> THEN <<>>
  ELSE LET clean_name == Strip(Head(actor_names))
           rest == ActorNames(show_id, Tail(actor_names))
       IN IF clean_name # <<>>
          THEN <<[actor_name |-> clean_name, show_id |-> show_id,
                  processed |-> FALSE]>> \o rest
          ELSE rest

\* ActorsController.create_temp_actors_table, the loop over the rows read
RECURSIVE actors_list(_)
actors_list(df) ==
  IF df = <<>> THEN <<>>
  ELSE LET record == Head(df)
           cast_string == record.cast
       IN (IF Truthy(cast_string) /\ cast_string # Unknown
           THEN ActorNames(record.show_id, SplitComma(cast_string))
           ELSE <<>>)
          \o actors_list(Tail(df))

\* ActorsController.create_temp_actors_table, the whole call.  The source is
\* read (in the order the store returns the rows) and the table replaced
\* through an engine of the call's own; the table is replaced only when
\* there is a row to write.
create_temp_actors_table ==
  /\ Idle
  /\ Len(processing_status) < MaxRuns
  /\ \E F \in FaultSets({"start", "read", "write", "finish"}) :
     \E aborts \in Aborts(F \cap {"start", "finish"}) :
     \E df \in RowOrders({r \in SeqToSet(temp_netflix_titles) :
                            r.cast # None /\ r.cast # Unknown}) :
       LET k == "ActorsController"
           T1 == start_processing_run(TrackerState(k, aborts), "temp_actors",
                                      "start" \notin F)
           run_id == IF "start" \in F \/ conn_failed THEN 0
                     ELSE T1.c.current_run_id
           list == actors_list(df)
           raised == "read" \in F \/ (list # <<>> /\ "write" \in F)
           R == IF raised
                THEN fail_processing_run(T1, <<"StoreError">>,
                                         "finish" \notin F)
                ELSE complete_processing_run(T1, 0, "finish" \notin F)
       IN /\ temp_actors' = IF raised \/ list = <<>> THEN temp_actors
                            ELSE list
          /\ processing_status' = R.t.ps
          /\ ctl' = [ctl EXCEPT ![k] = R.t.c]
          /\ now' = R.t.now
          /\ conn_failed' = R.t.failed
          /\ faultsLeft' = faultsLeft - Cardinality(F)
          /\ lastOp' = [op |-> "create_temp_actors_table", run |-> run_id,
                        exc |-> IF raised THEN "StoreError" ELSE R.exc,
                        totals |-> <<0, 0, 0>>]
  /\ UNCHANGED <<moreStoreVars,
                 actorVars, temp_categories_titles, temp_categories,
                 temp_director, directors, categories, categories_titles,
                 category_cache, cat_title_cache, cdrain, hist>>

\* ------------------------------------------ the actor stagers' behaviours
\* Cast columns: lists with blank tokens, padded tokens and the sentinel,
\* and columns without a name.
StagerCasts ==
  { An \o <<",">> \o Unknown,
    <<" ">> \o An \o <<" ", ",", ",", " ">> \o Ki \o <<" ">>,
    Ana \o <<",", " ">> \o An \o <<",">> \o Ana,
    <<" ">> \o Unknown,
    Unknown, None, <<>>, <<" ">> }

StagerSources ==
  { <<[show_id |-> "s1", cast |-> c, listed_in |-> None]>> :
      c \in StagerCasts }

InitStagers ==
  /\ InitCommon
  /\ temp_netflix_titles \in StagerSources
  /\ temp_categories_titles = <<>>
  /\ faultsLeft = MaxFaults

NextStagers ==
  \/ create_temp_actors_titles_table
  \/ create_temp_actors_table
  \/ Restart

SpecStagers == InitStagers /\ [][NextStagers]_vars

\* The tokens of a source row's cast column a candidate stands for.
CandidateTokens(record) ==
  IF record.cast = None THEN {}
  ELSE LET tokens == SplitComma(record.cast)
       IN {j \in DOMAIN tokens : /\ Strip(tokens[j]) # <<>>
                                 /\ Strip(tokens[j]) # Unknown}

\* table holds one unprocessed candidate per candidate token of src, with
\* the trimmed token as its name, and nothing else.
IsStagingOf(table, src) ==
  /\ \A c \in DOMAIN table : table[c].processed = FALSE
  /\ \A show_id \in {src[i].show_id : i \in DOMAIN src}
                      \cup {table[c].show_id : c \in DOMAIN table} :
     \A name \in {Strip(tok) : tok \in UNION {SeqToSet(SplitComma(src[i].cast)) :
                                   i \in {j \in DOMAIN src : src[j].cast # None}}}
                   \cup {table[c].actor_name : c \in DOMAIN table} :
       Cardinality({c \in DOMAIN table : /\ table[c].show_id = show_id
                                         /\ table[c].actor_name = name})
         = Cardinality({p \in UNION {{<<i, j>> : j \in CandidateTokens(src[i])} :
                                       i \in DOMAIN src} :
                          /\ src[p[1]].show_id = show_id
                          /\ Strip(SplitComma(src[p[1]].cast)[p[2]]) = name})

\* C16: after a staging call that returned, the staging table holds exactly
\* one candidate per comma-separated token of the source that is non-empty
\* after trimming and is not "unknown", named by the trimmed token and
\* unprocessed, and no candidate for any other token.
StagerOutput ==
  /\ (lastOp.op = "create_temp_actors_titles_table" /\ lastOp.exc = "none")
       => IsStagingOf(temp_actors_titles, temp_netflix_titles)
  /\ (lastOp.op = "create_temp_actors_table" /\ lastOp.exc = "none")
       => IsStagingOf(temp_actors, temp_netflix_titles)

\* C17: a staging call that returns right after a staging call that returned
\* leaves the staging table it found (the source is fixed in these
\* behaviours): the same (show_id, actor_name) candidates, none added, all
\* unprocessed.
StagerIdempotence ==
  [][(/\ create_temp_actors_titles_table
      /\ lastOp.op = "create_temp_actors_titles_table"
      /\ lastOp.exc = "none"
      /\ lastOp'.exc = "none")
       => /\ temp_actors_titles' = temp_actors_titles
          /\ \A i \in DOMAIN temp_actors_titles' :
               temp_actors_titles'[i].processed = FALSE]_vars

\* C17 witness: the last two runs are completed stagings of
\* temp_actors_titles and the table holds more than one candidate.
StagerIdempotenceWitness ==
  /\ lastOp.op = "create_temp_actors_titles_table"
  /\ lastOp.exc = "none"
  /\ Len(temp_actors_titles) > 1
  /\ Len(processing_status) >= 2
  /\ \A n \in {Len(processing_status) - 1, Len(processing_status)} :
       /\ processing_status[n].table_name = "temp_actors_titles"
       /\ processing_status[n].status = "completed"

\* The candidates a running drain has counted as skipped so far.
SkippedSoFar(d) ==
  d.total_skipped + (IF d.pc = "batch" THEN d.batch_skipped ELSE 0)

\* C18: handling, without store error, a candidate whose show_id has no
\* Title row marks it processed and counts it skipped, does not call the
\* resolver, and writes no relationship, person or actor row.
MissingTitleSkipsUnresolved ==
  [][(/\ ProcessRecord
      /\ faultsLeft' = faultsLeft
      /\ ~\E t \in TitleRows :
            t.code = temp_actors_titles[Head(drain.batch_df)].show_id)
       => /\ temp_actors_titles'[Head(drain.batch_df)].processed
          /\ SkippedSoFar(drain') = SkippedSoFar(drain) + 1
          /\ hist'.resolved = hist.resolved
          /\ actors_titles' = actors_titles
          /\ people' = people
          /\ actors' = actors]_vars

\* C19: when a store error strikes the handling of a category candidate
\* whose category is neither cached nor stored, and the category is not
\* created, no relationship row is inserted for the candidate.
ResolverFailureIsSkip ==
  [][(/\ CatResolve
      /\ faultsLeft' < faultsLeft
      /\ LET row == temp_categories_titles[Head(cdrain.temp_records)]
             name == Strip(row.category_name)
         IN /\ name \notin DOMAIN category_cache
            /\ get_by_description(categories, name) = {}
            /\ get_by_description(categories', name) = {})
       => categories_titles' = categories_titles]_vars

\* ------------------------------- staging under more than one store error
\* The store errors one behaviour of SpecStageFaults may meet.
MaxStageFaults == 2

InitStageFaults ==
  /\ InitCommon
  /\ temp_netflix_titles \in Sources
  /\ temp_categories_titles = <<>>
  /\ faultsLeft = MaxStageFaults

NextStageFaults ==
  \/ create_temp_actors_titles_table
  \/ Restart

SpecStageFaults == InitStageFaults /\ [][NextStageFaults]_vars

\* C20: when create_temp_actors_titles_table has raised, the run it started
\* is failed and its error_message is the error raised.
StagingFailureFailsRun ==
  (/\ lastOp.op = "create_temp_actors_titles_table"
   /\ lastOp.exc # "none"
   /\ lastOp.run # 0)
    => /\ processing_status[lastOp.run].status = "failed"
       /\ processing_status[lastOp.run].error_message = lastOp.exc

\* C21: a staging call that raises leaves either the staging table it found
\* or the complete table of the source, never another (emptied or partly
\* filled) table.
NoPartialStagingTable ==
  [][(/\ create_temp_actors_titles_table
      /\ lastOp'.exc # "none")
       => temp_actors_titles'
            \in {temp_actors_titles,
                 _extract_actor_records(temp_netflix_titles)}]_vars

\* ------------------------------------ TitlesController (titles_controller_new)
Movie == <<"M", "o", "v", "i", "e">>
Show == <<"T", "V", " ", "S", "h", "o", "w">>

\* Source rows with their title and type columns.
TypedRows ==
  [s1 |-> [show_id |-> "s1", title |-> An, type |-> Movie,
           cast |-> None, listed_in |-> None],
   s2 |-> [show_id |-> "s2", title |-> Ki, type |-> Show \o <<" ">>,
           cast |-> None, listed_in |-> None],
   s9 |-> [show_id |-> "s9", title |-> None, type |-> Unknown,
           cast |-> None, listed_in |-> None]]

TypedSources ==
  {<<TypedRows.s1>>, <<TypedRows.s1, TypedRows.s2>>,
   <<TypedRows.s9, TypedRows.s2>>, <<TypedRows.s9>>}

\* TitlesController.create_temp_titles_table, the loop: the rows with a
\* show_id and a title, in show_id order (the columns that only travel to
\* the titles row are left out; a missing show_id is the empty string).
titles_list(src) ==
  LET df == OrderByShowId(SelectSeq(src, LAMBDA r : r.show_id # ""), 1)
      kept == SelectSeq(df, LAMBDA r : r.show_id # "" /\ Truthy(r.title))
  IN [i \in DOMAIN kept |->
        [show_id |-> kept[i].show_id, title |-> kept[i].title,
         type |-> kept[i].type, processed |-> FALSE]]

\* TitlesController.create_temp_titles_table, the whole call.  The source is
\* read and the table replaced through an engine of the call's own; the
\* table is replaced only when there is a row to write.
create_temp_titles_table ==
  /\ Idle
  /\ Len(processing_status) < MaxRuns
  /\ \E F \in FaultSets({"start", "read", "write", "finish"}) :
     \E aborts \in Aborts(F \cap {"start", "finish"}) :
       LET k == "TitlesController"
           T1 == start_processing_run(TrackerState(k, aborts), "temp_titles",
                                      "start" \notin F)
           run_id == IF "start" \in F \/ conn_failed THEN 0
                     ELSE T1.c.current_run_id
           list == titles_list(temp_netflix_titles)
           raised == "read" \in F \/ (list # <<>> /\ "write" \in F)
           R == IF raised
                THEN fail_processing_run(T1, <<"StoreError">>,
                                         "finish" \notin F)
                ELSE complete_processing_run(T1, 0, "finish" \notin F)
       IN /\ temp_titles' = IF raised \/ list = <<>> THEN temp_titles
                            ELSE list
          /\ processing_status' = R.t.ps
          /\ ctl' = [ctl EXCEPT ![k] = R.t.c]
          /\ now' = R.t.now
          /\ conn_failed' = R.t.failed
          /\ faultsLeft' = faultsLeft - Cardinality(F)
          /\ lastOp' = [op |-> "create_temp_titles_table", run |-> run_id,
                        exc |-> IF raised THEN "StoreError" ELSE R.exc,
                        totals |-> <<0, 0, 0>>]
  /\ UNCHANGED <<actorVars, temp_categories_titles, temp_categories,
                 temp_director, directors, temp_actors, titles, temp_title_types,
                 title_types, builders, categories, categories_titles,
                 category_cache, cat_title_cache, cdrain, hist>>

\* TitlesController.mark_as_processed: UPDATE ... WHERE show_id = :show_id
mark_title_as_processed(table, show_id) ==
  [i \in DOMAIN table |->
     IF table[i].show_id = show_id THEN [table[i] EXCEPT !.processed = TRUE]
     ELSE table[i]]

\* `if self.records_processed % 10 == 0` of _process_title_records
TitlesProgressEvery == 10

\* TitlesController._title_already_exists over the titles table T: an error
\* of TitlesRepository.get_by_code is caught (there and here) and the title
\* is taken as missing.
_title_already_exists(T, code, t, fault) ==
  ~(t.failed \/ fault) /\ \E i \in DOMAIN T : T[i].code = code

\* TitlesController._process_title_records from record n on.
\* st = [titles, temp, t, raised]; t is the tracker state, raised the
\* show_ids of the records that left the try block by its except clause.
\* The store error F, if any, strikes record number at: "lookup" get_by_code, "build" a
\* repository call of _build_title_data (the rating and title-type
\* repositories do not roll back), "create" TitlesRepository.create (it
\* rolls back), "mark" mark_as_processed (caught there).  On a failed
\* connection the lookup answers [] and _build_title_data raises.
RECURSIVE TitlesLoop(_, _, _, _, _)
TitlesLoop(records, n, st, at, F) ==
  IF n > Len(records) THEN st
  ELSE
    LET record == records[n]
        show_id == record.show_id
        hit(point) == at = n /\ point \in F
        t1 == [st.t EXCEPT !.c = increment_processed(@)]
        exists == _title_already_exists(st.titles, show_id, t1, hit("lookup"))
        t2 == IF hit("lookup") THEN AfterError(t1) ELSE t1
        marked == IF hit("mark") THEN st.temp
                  ELSE mark_title_as_processed(st.temp, show_id)
        created == [t2 EXCEPT !.c = increment_created(@)]
        ticked == IF created.c.records_processed % TitlesProgressEvery = 0
                  THEN update_processing_progress(created, "processing",
                                                  NoMessage, TRUE)
                  ELSE created
    IN IF exists
       THEN TitlesLoop(records, n + 1,
                       [st EXCEPT !.t = [t2 EXCEPT !.c = increment_skipped(@)],
                                  !.temp = marked], at, F)
       ELSE IF t2.failed \/ hit("build")
       THEN TitlesLoop(records, n + 1,
                       [st EXCEPT !.t = IF hit("build") THEN AfterError(t2)
                                        ELSE t2,
                                  !.raised = @ \cup {show_id}], at, F)
       ELSE IF hit("create")
       THEN TitlesLoop(records, n + 1,
                       [st EXCEPT !.t = t2, !.raised = @ \cup {show_id}],
                       at, F)
       ELSE TitlesLoop(records, n + 1,
                       [st EXCEPT !.titles = Append(@, [code |-> show_id,
                                                        name |-> record.title]),
                                  !.t = ticked, !.temp = marked], at, F)

\* TitlesController.populate_titles_table_from_temp, the whole call.  The
\* status query and the load of the unprocessed rows run on connections of
\* their own.
populate_titles_table_from_temp ==
  /\ Idle
  /\ Len(processing_status) < MaxRuns
  /\ ctl["TitlesController"].records_processed < MaxCount
  /\ \E F \in FaultSets({"start", "load", "lookup", "build", "create", "mark",
                         "finish"}) :
     \E aborts \in Aborts(F \cap {"start", "lookup", "build", "finish"}) :
       LET k == "TitlesController"
           T1 == start_processing_run(TrackerState(k, aborts), "titles",
                                      "start" \notin F)
           run_id == IF "start" \in F \/ conn_failed THEN 0
                     ELSE T1.c.current_run_id
           unprocessed_titles ==
             SelectSeq(temp_titles, LAMBDA r : r.processed = FALSE)
           raised == "load" \in F
       IN \E at \in (IF F \cap {"lookup", "build", "create", "mark"} = {}
                        \/ unprocessed_titles = <<>>
                     THEN {0} ELSE DOMAIN unprocessed_titles) :
            LET st == IF raised \/ unprocessed_titles = <<>>
                      THEN [titles |-> titles, temp |-> temp_titles, t |-> T1,
                            raised |-> {}]
                      ELSE TitlesLoop(unprocessed_titles, 1,
                                      [titles |-> titles, temp |-> temp_titles,
                                       t |-> T1, raised |-> {}], at, F)
                R == IF raised
                     THEN fail_processing_run(st.t, <<"StoreError">>,
                                              "finish" \notin F)
                     ELSE complete_processing_run(st.t, 0, "finish" \notin F)
            IN /\ titles' = st.titles
               /\ temp_titles' = st.temp
               /\ processing_status' = R.t.ps
               /\ ctl' = [ctl EXCEPT ![k] = R.t.c]
               /\ now' = R.t.now
               /\ conn_failed' = R.t.failed
               /\ faultsLeft' = faultsLeft - Cardinality(F)
               /\ hist' = [hist EXCEPT
                             !.raisedIds =
                               {i \in DOMAIN temp_titles :
                                  temp_titles[i].show_id \in st.raised}]
               /\ lastOp' = [op |-> "populate_titles_table_from_temp",
                             run |-> run_id,
                             exc |-> IF raised THEN "StoreError" ELSE "none",
                             totals |-> <<R.t.c.records_processed,
                                          R.t.c.records_created,
                                          R.t.c.records_skipped>>]
  /\ UNCHANGED <<actorVars, temp_categories_titles, temp_categories,
                 temp_director, directors, temp_actors, temp_title_types, title_types,
                 builders, categories, categories_titles, category_cache,
                 cat_title_cache, cdrain>>

\* ------------------------------------- the title controller's behaviours
InitTitles ==
  /\ InitCommon
  /\ temp_netflix_titles \in TypedSources
  /\ temp_categories_titles = <<>>
  /\ faultsLeft = MaxFaults

NextTitles ==
  \/ create_temp_titles_table
  \/ populate_titles_table_from_temp
  \/ Restart

SpecTitles == InitTitles /\ [][NextTitles]_vars

\* C22: the titles table holds at most one row per code.
TitleCreatedAtMostOnce ==
  \A i, j \in DOMAIN titles : i # j => titles[i].code # titles[j].code

\* ------------------------------------------ two Builders on one staging table
\* What no step of a Builder process touches: the objects of the first
\* process and the tables of the other controllers.
builderFrame ==
  <<temp_netflix_titles, temp_actor_titles, ctl, people_cache, title_cache,
    drain, temp_categories_titles, temp_categories, temp_director, directors,
    temp_actors, temp_titles, titles, temp_title_types, title_types,
    categories, categories_titles, category_cache, cat_title_cache, cdrain,
    conn_failed, faultsLeft, loads, lastOp, hist>>

\* The tracker state of Builder b; its process has a connection of its own.
BuilderTracker(b) ==
  [ps |-> processing_status, c |-> builders[b].c, now |-> now,
   failed |-> FALSE, aborts |-> FALSE]

\* _create_missing_actor: the name parsed into the person to look up or create.
person_data_of(actor_name) ==
  LET parts == Split(Strip(actor_name))
  IN [first_name |-> IF parts # <<>> THEN parts[1] ELSE Unknown,
      middle_name |-> None,
      last_name |-> IF Len(parts) > 1 THEN JoinSpace(Tail(parts)) ELSE None]

\* The candidate Builder b is handling.
BuilderRow(b) == temp_actors_titles[Head(builders[b].drain.batch_df)]

\* The Builder after _process_single_record returned.
BuilderAfterRecord(B, processed, created, skipped) ==
  [B EXCEPT !.drain = AfterRecord(B.drain, processed, created, skipped),
            !.at = "none", !.person_id = 0, !.actor_id = 0, !.title_id = 0,
            !.exists = FALSE]

\* populate_actors_titles_table_from_temp of Builder b up to the loop.
BuilderStart(b) ==
  /\ builders[b].drain.pc = "idle"
  /\ Len(processing_status) < MaxRuns
  /\ \E batch_size \in 1..MaxBatch :
       LET B == builders[b]
           T1 == start_processing_run(BuilderTracker(b), "actors_titles", TRUE)
           total_unprocessed == Cardinality(Unprocessed(temp_actors_titles))
           R == IF total_unprocessed = 0
                THEN complete_processing_run(T1, 0, TRUE)
                ELSE Returned(T1)
       IN /\ processing_status' = R.t.ps
          /\ now' = R.t.now
          /\ IF total_unprocessed = 0
             THEN builders' = [builders EXCEPT ![b].c = R.t.c]
             ELSE \E cache \in _build_people_cache(B.people_cache, people,
                                                   actors) :
                    builders' =
                      [builders EXCEPT ![b] =
                         [B EXCEPT
                            !.c = R.t.c,
                            !.people_cache = cache,
                            !.title_cache = _build_title_cache(B.title_cache),
                            !.drain =
                              [pc |-> "page", run_id |-> R.t.c.current_run_id,
                               batch_size |-> batch_size,
                               total_unprocessed |-> total_unprocessed,
                               offset |-> 0, batch_df |-> <<>>,
                               total_processed |-> 0, total_created |-> 0,
                               total_skipped |-> 0, batch_processed |-> 0,
                               batch_created |-> 0, batch_skipped |-> 0]]]
  /\ UNCHANGED <<temp_actors_titles, people, actors, actors_titles>>
  /\ UNCHANGED builderFrame

\* One turn of the loop of Builder b that finds a page.
BuilderFetch(b) ==
  /\ builders[b].drain.pc = "page"
  /\ builders[b].drain.offset < builders[b].drain.total_unprocessed
  /\ LET d == builders[b].drain
         batch_df == SelectBatch(temp_actors_titles, d.batch_size, d.offset)
     IN /\ batch_df # <<>>
        /\ builders' =
             [builders EXCEPT ![b].drain =
                [d EXCEPT !.pc = "batch", !.batch_df = batch_df,
                          !.batch_processed = 0, !.batch_created = 0,
                          !.batch_skipped = 0]]
  /\ UNCHANGED <<temp_actors_titles, people, actors, actors_titles,
                 processing_status, now>>
  /\ UNCHANGED builderFrame

\* The loop of Builder b ends and its run is completed.
BuilderFinish(b) ==
  /\ builders[b].drain.pc = "page"
  /\ LET d == builders[b].drain
     IN \/ d.offset >= d.total_unprocessed
        \/ SelectBatch(temp_actors_titles, d.batch_size, d.offset) = <<>>
  /\ LET R == complete_processing_run(BuilderTracker(b), 0, TRUE)
     IN /\ processing_status' = R.t.ps
        /\ now' = R.t.now
        /\ builders' = [builders EXCEPT ![b].c = R.t.c, ![b].drain = NoDrain]
  /\ UNCHANGED <<temp_actors_titles, people, actors, actors_titles>>
  /\ UNCHANGED builderFrame

\* _process_single_record begins: _find_actor_id answers from the cache, or
\* _create_missing_actor runs its SELECT on people (get_by_name).
BuilderFind(b) ==
  /\ builders[b].drain.pc = "batch"
  /\ builders[b].at = "none"
  /\ LET B == builders[b]
         actor_name == Strip(BuilderRow(b).actor_name)
         p == person_data_of(actor_name)
         existing_people == get_by_name(people, p.first_name, None, p.last_name)
     IN IF CacheHit(actor_name, B.people_cache)
        THEN \E o \in _find_actor_id(actor_name, people, actors,
                                     B.people_cache, FALSE) :
               builders' = [builders EXCEPT ![b].at = "title",
                                            ![b].actor_id = o.id]
        ELSE IF existing_people # {}
        THEN \E person_id \in existing_people :
               builders' = [builders EXCEPT ![b].at = "actor_exists",
                                            ![b].person_id = person_id,
                                            ![b].seen_people = Len(people)]
        ELSE builders' = [builders EXCEPT ![b].at = "person",
                                          ![b].seen_people = Len(people)]
  /\ UNCHANGED <<temp_actors_titles, people, actors, actors_titles,
                 processing_status, now>>
  /\ UNCHANGED builderFrame

\* _create_missing_actor: people_repo.create, the INSERT of the new person.
BuilderPerson(b) ==
  /\ builders[b].at = "person"
  /\ LET actor_name == Strip(BuilderRow(b).actor_name)
     IN /\ people' = Append(people, person_data_of(actor_name))
        /\ builders' = [builders EXCEPT ![b].at = "actor_exists",
                                        ![b].person_id = Len(people) + 1]
  /\ UNCHANGED <<temp_actors_titles, actors, actors_titles, processing_status,
                 now>>
  /\ UNCHANGED builderFrame

\* _create_missing_actor: actors_repo.actor_exists, the SELECT on actors.
BuilderActorExists(b) ==
  /\ builders[b].at = "actor_exists"
  /\ LET B == builders[b]
         actor_name == Strip(BuilderRow(b).actor_name)
     IN IF B.person_id \in SeqToSet(actors)
        THEN builders' =
               [builders EXCEPT
                  ![b].at = "title",
                  ![b].actor_id = B.person_id,
                  ![b].people_cache =
                    _update_cache_for_actor(B.people_cache, actor_name,
                                            B.person_id)]
        ELSE builders' = [builders EXCEPT ![b].at = "actor"]
  /\ UNCHANGED <<temp_actors_titles, people, actors, actors_titles,
                 processing_status, now>>
  /\ UNCHANGED builderFrame

\* _create_missing_actor: actors_repo.create, the INSERT of the actor.  When
\* the other Builder inserted the same actor_id in between, the INSERT adds a
\* second row or raises, as the table's definition (not in the repository)
\* decides; a raise is caught and None is returned.
BuilderActor(b) ==
  /\ builders[b].at = "actor"
  /\ LET B == builders[b]
         actor_name == Strip(BuilderRow(b).actor_name)
     IN \/ /\ actors' = Append(actors, B.person_id)
           /\ builders' =
                [builders EXCEPT
                   ![b].at = "title",
                   ![b].actor_id = B.person_id,
                   ![b].people_cache =
                     _update_cache_for_actor(B.people_cache, actor_name,
                                             B.person_id)]
        \/ /\ B.person_id \in SeqToSet(actors)
           /\ actors' = actors
           /\ builders' = [builders EXCEPT ![b].at = "title",
                                           ![b].actor_id = 0]
  /\ UNCHANGED <<temp_actors_titles, people, actors_titles, processing_status,
                 now>>
  /\ UNCHANGED builderFrame

\* _process_single_record after _find_actor_id returned: without an actor or
\* a title the row is marked and committed; otherwise
\* _check_existing_relationship runs its SELECT on actors_titles.
BuilderCheck(b) ==
  /\ builders[b].at = "title"
  /\ LET B == builders[b]
         record_id == Head(B.drain.batch_df)
         row == BuilderRow(b)
         title_id == IF row.show_id \in DOMAIN B.title_cache
                     THEN B.title_cache[row.show_id] ELSE 0
     IN IF B.actor_id = 0 \/ title_id = 0
        THEN /\ temp_actors_titles' =
                  _mark_as_processed_in_trans(temp_actors_titles, record_id)
             /\ builders' = [builders EXCEPT ![b] =
                               BuilderAfterRecord(B, 1, 0, 1)]
        ELSE /\ temp_actors_titles' = temp_actors_titles
             /\ builders' =
                  [builders EXCEPT
                     ![b].at = "commit",
                     ![b].title_id = title_id,
                     ![b].seen_rel = Len(actors_titles),
                     ![b].exists =
                       _check_existing_relationship(actors_titles, B.actor_id,
                                                    title_id)]
  /\ UNCHANGED <<people, actors, actors_titles, processing_status, now>>
  /\ UNCHANGED builderFrame

\* _process_single_record to its commit: _create_relationship unless the row
\* was found, _mark_as_processed_in_trans, trans.commit().
BuilderCommit(b) ==
  /\ builders[b].at = "commit"
  /\ LET B == builders[b]
         record_id == Head(B.drain.batch_df)
         created == IF B.exists THEN 0 ELSE 1
     IN /\ actors_titles' =
             IF B.exists THEN actors_titles
             ELSE _create_relationship(actors_titles, B.actor_id, B.title_id)
        /\ temp_actors_titles' =
             _mark_as_processed_in_trans(temp_actors_titles, record_id)
        /\ builders' = [builders EXCEPT ![b] =
                          BuilderAfterRecord(B, 1, created, 1 - created)]
  /\ UNCHANGED <<people, actors, processing_status, now>>
  /\ UNCHANGED builderFrame

\* The sources of the two-Builder behaviours: one title with one or two
\* actors.
RaceSources ==
  { <<[show_id |-> "s1", cast |-> An, listed_in |-> None]>>,
    <<[show_id |-> "s1", cast |-> An \o <<",">> \o Bo, listed_in |-> None]>> }

\* No store error is injected in these behaviours.
InitRace ==
  /\ InitCommon
  /\ temp_netflix_titles \in RaceSources
  /\ temp_categories_titles = <<>>
  /\ faultsLeft = 0

NextRace ==
  \/ create_temp_actors_titles_table
  \/ \E b \in Builders : BuilderStart(b)
  \/ \E b \in Builders : BuilderFetch(b)
  \/ \E b \in Builders : BuilderFinish(b)
  \/ \E b \in Builders : BuilderFind(b)
  \/ \E b \in Builders : BuilderPerson(b)
  \/ \E b \in Builders : BuilderActorExists(b)
  \/ \E b \in Builders : BuilderActor(b)
  \/ \E b \in Builders : BuilderCheck(b)
  \/ \E b \in Builders : BuilderCommit(b)

SpecRace == InitRace /\ [][NextRace]_vars

\* The relationship rows i and j hold the same (actor_id, title_id) pair.
SameRelationship(i, j) ==
  /\ actors_titles[i].actor_id = actors_titles[j].actor_id
  /\ actors_titles[i].title_id = actors_titles[j].title_id

\* The people rows i and j hold the same name.
SameName(i, j) ==
  /\ people[i].first_name = people[j].first_name
  /\ people[i].last_name = people[j].last_name

\* C23 - Race window under two writers: two Builder instances draining one
\* staging table reach a state with two relationship rows for one
\* (actor_id, title_id) pair and two people rows for one name
\* (RaceWindowWitness), and a Builder only ever inserts such a second row when
\* the first one was committed by another transaction between its own lookup
\* and its own insert: lookup and insert are separate steps.
RaceWindow ==
  [][\A b \in Builders :
       /\ (BuilderCommit(b) /\ actors_titles' # actors_titles)
            => \A i \in DOMAIN actors_titles :
                 (/\ actors_titles[i].actor_id = builders[b].actor_id
                  /\ actors_titles[i].title_id = builders[b].title_id)
                   => i > builders[b].seen_rel
       /\ BuilderPerson(b)
            => \A i \in DOMAIN people :
                 (/\ people[i].first_name = people'[Len(people')].first_name
                  /\ people[i].last_name = people'[Len(people')].last_name)
                   => i > builders[b].seen_people]_vars

RaceWindowWitness ==
  /\ \E i, j \in DOMAIN actors_titles : i # j /\ SameRelationship(i, j)
  /\ \E i, j \in DOMAIN people : i # j /\ SameName(i, j)

\* ----------------------------------------- the Run Tracker called directly
\* The controller object whose tracker methods are called.
TrackedController == "ActorsController"

\* What a tracker call leaves alone.
trackerFrame == <<actorVars, catVars>>

\* One call of a tracker method: T is the tracker state it leaves, exc the
\* exception it raised, run the id start_processing_run returned (0 = None).
TrackerCall(op, T, exc, run, F) ==
  /\ processing_status' = T.ps
  /\ ctl' = [ctl EXCEPT ![TrackedController] = T.c]
  /\ now' = T.now
  /\ conn_failed' = T.failed
  /\ faultsLeft' = faultsLeft - Cardinality(F)
  /\ lastOp' = [op |-> op, run |-> run, exc |-> exc, totals |-> <<0, 0, 0>>]
  /\ hist' = [hist EXCEPT !.faulted = F # {} \/ conn_failed]
  /\ UNCHANGED trackerFrame

\* The direct calls stop when the clock reads MaxClock.
MaxClock == 5

\* self.start_processing_run(table_name)
TrackerStart ==
  /\ Len(processing_status) < MaxRuns
  /\ now < MaxClock
  /\ \E F \in FaultSets({"store"}) :
     \E aborts \in Aborts(F) :
       LET T == start_processing_run(TrackerState(TrackedController, aborts),
                                     "actors", F = {})
       IN TrackerCall("start_processing_run", T, "none",
                      IF F # {} \/ conn_failed THEN 0 ELSE T.c.current_run_id,
                      F)

\* self.increment_processed() etc. between two tracker calls
TrackerCount ==
  /\ ctl[TrackedController].records_processed < MaxCount
  /\ \E created \in BOOLEAN :
       ctl' = [ctl EXCEPT ![TrackedController] =
                 IF created THEN increment_created(increment_processed(@))
                 ELSE increment_skipped(increment_processed(@))]
  /\ UNCHANGED <<processing_status, now, conn_failed, faultsLeft, lastOp, hist>>
  /\ UNCHANGED trackerFrame

\* self.update_processing_progress('processing')
TrackerTick ==
  /\ now < MaxClock
  /\ \E F \in FaultSets({"store"}) :
     \E aborts \in Aborts(F) :
       LET T == update_processing_progress(
                  TrackerState(TrackedController, aborts), "processing",
                  NoMessage, F = {})
       IN TrackerCall("update_processing_progress", T, "none", 0, F)

\* self.complete_processing_run()
TrackerComplete ==
  /\ now < MaxClock
  /\ \E F \in FaultSets({"store"}) :
     \E aborts \in Aborts(F) :
       LET R == complete_processing_run(TrackerState(TrackedController, aborts),
                                        0, F = {})
       IN TrackerCall("complete_processing_run", R.t, R.exc, 0, F)

\* self.fail_processing_run(str(e))
TrackerFail ==
  /\ now < MaxClock
  /\ \E F \in FaultSets({"store"}) :
     \E aborts \in Aborts(F) :
       LET R == fail_processing_run(TrackerState(TrackedController, aborts),
                                    <<"StoreError">>, F = {})
       IN TrackerCall("fail_processing_run", R.t, R.exc, 0, F)

InitCalls ==
  /\ InitCommon
  /\ temp_netflix_titles = <<>>
  /\ temp_categories_titles = <<>>
  /\ faultsLeft = MaxStageFaults

NextCalls ==
  \/ TrackerStart
  \/ TrackerCount
  \/ TrackerTick
  \/ TrackerComplete
  \/ TrackerFail
  \/ Restart

SpecCalls == InitCalls /\ [][NextCalls]_vars

\* C24 - Run Tracker never throws: start_processing_run,
\* update_processing_progress, complete_processing_run and
\* fail_processing_run return normally whether or not the checkpoint store
\* raises; start_processing_run returns no run id when it does; and on a
\* controller that has started no run the tick, complete and fail calls
\* leave the checkpoint table as it is.
TrackerNeverThrows ==
  [][/\ (TrackerStart \/ TrackerTick \/ TrackerComplete \/ TrackerFail)
          => lastOp'.exc = "none"
     /\ (TrackerStart /\ hist'.faulted)
          => lastOp'.run = 0 /\ processing_status' = processing_status
     /\ ((TrackerTick \/ TrackerComplete \/ TrackerFail)
          /\ ctl[TrackedController].current_run_id = 0)
          => processing_status' = processing_status]_vars

TrackerNeverThrowsWitness ==
  /\ lastOp.op = "complete_processing_run"
  /\ lastOp.exc = "none"
  /\ hist.faulted
  /\ ctl[TrackedController].current_run_id # 0

\* ------------------------------------------------- TitleTypesController
\* Source rows for the type column; s3 holds the type of s1 with a trailing
\* blank.
TypeRows ==
  [s1 |-> TypedRows.s1, s2 |-> TypedRows.s2,
   s3 |-> [show_id |-> "s3", title |-> Bo, type |-> Movie \o <<" ">>,
           cast |-> None, listed_in |-> None],
   s9 |-> TypedRows.s9]

TypeSources ==
  {<<TypeRows.s1>>, <<TypeRows.s1, TypeRows.s2>>, <<TypeRows.s1, TypeRows.s3>>,
   <<TypeRows.s9, TypeRows.s2>>, <<TypeRows.s9>>}

\* The type values of the sources in the order ORDER BY "type" gives them.
TypeOrder ==
  <<Movie, Movie \o <<" ">>, Show, Show \o <<" ">>, Unknown>>

\* create_temp_title_types_table, the query and the loop: SELECT DISTINCT
\* "type" ... WHERE "type" IS NOT NULL AND "type" != 'unknown' ORDER BY
\* "type", each value stripped and kept unless empty or "unknown".
title_types_list(src) ==
  LET df == SelectSeq(TypeOrder,
                      LAMBDA v : /\ v # Unknown
                                 /\ \E i \in DOMAIN src : src[i].type = v)
      kept == SelectSeq(df, LAMBDA v : Strip(v) # <<>> /\ Strip(v) # Unknown)
  IN [i \in DOMAIN kept |->
        [type_description |-> Strip(kept[i]), processed |-> FALSE]]

\* TitleTypesController.create_temp_title_types_table, the whole call; the
\* table is replaced only when there is a row to write.
create_temp_title_types_table ==
  /\ Idle
  /\ Len(processing_status) < MaxRuns
  /\ \E F \in FaultSets({"start", "read", "write", "finish"}) :
     \E aborts \in Aborts(F \cap {"start", "finish"}) :
       LET k == "TitleTypesController"
           T1 == start_processing_run(TrackerState(k, aborts),
                                      "temp_title_types", "start" \notin F)
           run_id == IF "start" \in F \/ conn_failed THEN 0
                     ELSE T1.c.current_run_id
           list == title_types_list(temp_netflix_titles)
           raised == "read" \in F \/ (list # <<>> /\ "write" \in F)
           R == IF raised
                THEN fail_processing_run(T1, <<"StoreError">>,
                                         "finish" \notin F)
                ELSE complete_processing_run(T1, 0, "finish" \notin F)
       IN /\ temp_title_types' = IF raised \/ list = <<>>
                                 THEN temp_title_types ELSE list
          /\ processing_status' = R.t.ps
          /\ ctl' = [ctl EXCEPT ![k] = R.t.c]
          /\ now' = R.t.now
          /\ conn_failed' = R.t.failed
          /\ faultsLeft' = faultsLeft - Cardinality(F)
          /\ lastOp' = [op |-> "create_temp_title_types_table",
                        run |-> run_id,
                        exc |-> IF raised THEN "StoreError" ELSE R.exc,
                        totals |-> <<0, 0, 0>>]
  /\ UNCHANGED <<actorVars, temp_categories_titles, temp_categories,
                 temp_director, directors, temp_actors, temp_titles, titles, title_types,
                 builders, categories, categories_titles, category_cache,
                 cat_title_cache, cdrain, hist>>

\* TitleTypesController.mark_as_processed: UPDATE ... WHERE type_description
\* = :type_description
mark_type_as_processed(table, type_description) ==
  [i \in DOMAIN table |->
     IF table[i].type_description = type_description
     THEN [table[i] EXCEPT !.processed = TRUE]
     ELSE table[i]]

\* `if self.records_processed % 5 == 0` of populate_title_types_table_from_temp
TypesProgressEvery == 5

\* The loop of populate_title_types_table_from_temp from record n on.
\* st = [title_types, temp, t, raised]; t is the tracker state.  The store
\* error F, if any, strikes record number at: "lookup" get_by_description
\* and "create" TitleTypesRepository.create raise and end the loop (neither
\* rolls back), "mark" is caught in mark_as_processed.  On a failed
\* connection get_by_description raises.
RECURSIVE TitleTypesLoop(_, _, _, _, _)
TitleTypesLoop(records, n, st, at, F) ==
  IF n > Len(records) \/ st.raised THEN st
  ELSE
    LET type_description == records[n].type_description
        hit(point) == at = n /\ point \in F
        t1 == [st.t EXCEPT !.c = increment_processed(@)]
        existing_title_type ==
          \E i \in DOMAIN st.title_types : st.title_types[i] = type_description
        counted == [t1 EXCEPT !.c = IF existing_title_type
                                     THEN increment_skipped(@)
                                     ELSE increment_created(@)]
        ticked == IF counted.c.records_processed % TypesProgressEvery = 0
                  THEN update_processing_progress(counted, "processing",
                                                  NoMessage, TRUE)
                  ELSE counted
    IN IF t1.failed \/ hit("lookup") \/ (~existing_title_type /\ hit("create"))
       THEN [st EXCEPT !.t = AfterError(t1), !.raised = TRUE]
       ELSE TitleTypesLoop(
              records, n + 1,
              [st EXCEPT
                 !.title_types = IF existing_title_type THEN @
                                 ELSE Append(@, type_description),
                 !.temp = IF hit("mark") THEN @
                          ELSE mark_type_as_processed(@, type_description),
                 !.t = ticked],
              at, F)

\* TitleTypesController.populate_title_types_table_from_temp, the whole
\* call.  The unprocessed rows are read ORDER BY type_description on a
\* connection of the call's own.
populate_title_types_table_from_temp ==
  /\ Idle
  /\ Len(processing_status) < MaxRuns
  /\ ctl["TitleTypesController"].records_processed < MaxCount
  /\ \E F \in FaultSets({"start", "load", "lookup", "create", "mark",
                         "finish"}) :
     \E aborts \in Aborts(F \cap {"start", "lookup", "create", "finish"}) :
       LET k == "TitleTypesController"
           T1 == start_processing_run(TrackerState(k, aborts), "title_types",
                                      "start" \notin F)
           run_id == IF "start" \in F \/ conn_failed THEN 0
                     ELSE T1.c.current_run_id
           result_df ==
             SelectSeq(temp_title_types, LAMBDA r : r.processed = FALSE)
           st0 == [title_types |-> title_types, temp |-> temp_title_types,
                   t |-> T1, raised |-> "load" \in F]
       IN \E at \in (IF F \cap {"lookup", "create", "mark"} = {}
                        \/ result_df = <<>>
                     THEN {0} ELSE DOMAIN result_df) :
            LET st == IF st0.raised \/ result_df = <<>> THEN st0
                      ELSE TitleTypesLoop(result_df, 1, st0, at, F)
                R == IF st.raised
                     THEN fail_processing_run(st.t, <<"StoreError">>,
                                              "finish" \notin F)
                     ELSE complete_processing_run(st.t, 0, "finish" \notin F)
            IN /\ title_types' = st.title_types
               /\ temp_title_types' = st.temp
               /\ processing_status' = R.t.ps
               /\ ctl' = [ctl EXCEPT ![k] = R.t.c]
               /\ now' = R.t.now
               /\ conn_failed' = R.t.failed
               /\ faultsLeft' = faultsLeft - Cardinality(F)
               /\ lastOp' = [op |-> "populate_title_types_table_from_temp",
                             run |-> run_id,
                             exc |-> IF st.raised THEN "StoreError"
                                     ELSE "none",
                             totals |-> <<R.t.c.records_processed,
                                          R.t.c.records_created,
                                          R.t.c.records_skipped>>]
  /\ UNCHANGED <<actorVars, temp_categories_titles, temp_categories,
                 temp_director, directors, temp_actors, temp_titles, titles, builders,
                 categories, categories_titles, category_cache,
                 cat_title_cache, cdrain, hist>>

InitTypes ==
  /\ InitCommon
  /\ temp_netflix_titles \in TypeSources
  /\ temp_categories_titles = <<>>
  /\ faultsLeft = MaxFaults

NextTypes ==
  \/ create_temp_title_types_table
  \/ populate_title_types_table_from_temp
  \/ Restart

SpecTypes == InitTypes /\ [][NextTypes]_vars

\* C25 - Title-types pipeline completes: when the source holds a type value
\* the stager keeps, a populate_title_types_table_from_temp that returns
\* right after a create_temp_title_types_table that returned leaves every
\* row of temp_title_types processed (completion is 100%).
TitleTypesPipelineCompletes ==
  [][(/\ populate_title_types_table_from_temp
      /\ lastOp.op = "create_temp_title_types_table"
      /\ lastOp.exc = "none"
      /\ lastOp'.exc = "none"
      /\ title_types_list(temp_netflix_titles) # <<>>)
       => /\ temp_title_types' # <<>>
          /\ \A i \in DOMAIN temp_title_types' :
               temp_title_types'[i].processed]_vars

\* --------------------------------------------- the drain runs to its end
\* Store errors enough for every candidate of a drain to raise and for the
\* attempt to mark it to fail as well.
MaxDrainFaults == 4

\* The staging tables a drain may find: the staged candidates of the source,
\* any of them marked by earlier drains.
StagedTables(src) ==
  LET staged == _insert_actor_records(<<>>, _extract_actor_records(src))
  IN {[i \in DOMAIN staged |-> [staged[i] EXCEPT !.processed = i \in marked]] :
        marked \in SUBSET DOMAIN staged}

InitDrainLive ==
  /\ InitButStaging
  /\ temp_netflix_titles \in RaceSources
  /\ temp_actors_titles \in StagedTables(temp_netflix_titles)
  /\ temp_categories_titles = <<>>
  /\ faultsLeft = MaxDrainFaults

NextDrainLive ==
  \/ DrainStart
  \/ FetchPage
  \/ ProcessRecord
  \/ DrainFinish

\* A call that started goes on: the interpreter takes the next step of the
\* loop whenever there is one.
SpecDrainLive ==
  /\ InitDrainLive
  /\ [][NextDrainLive]_vars
  /\ WF_vars(FetchPage)
  /\ WF_vars(ProcessRecord)
  /\ WF_vars(DrainFinish)

\* C26 - Drain loop termination: every call of
\* populate_actors_titles_table_from_temp that entered its loop leaves it
\* and returns, whatever the staging table holds, for every batch_size >= 1,
\* also when every candidate raises and cannot be marked either.
DrainTerminates == (drain.pc # "idle") ~> (drain.pc = "idle")

\* A drain returned after every candidate raised and could not be marked.
DrainTerminatesWitness ==
  /\ drain.pc = "idle"
  /\ lastOp.op = "populate_actors_titles_table_from_temp"
  /\ lastOp.exc = "none"
  /\ lastOp.totals = <<0, 0, 0>>
  /\ Len(temp_actors_titles) = 2
  /\ hist.handled = DOMAIN temp_actors_titles
  /\ Unprocessed(temp_actors_titles) = DOMAIN temp_actors_titles

\* ------------------------------------------------- the drain called again
\* The drain is called again and again on a staged table, without store
\* errors.
InitRepeat ==
  /\ InitButStaging
  /\ temp_netflix_titles \in DupSources \cup RaceSources
  /\ temp_actors_titles \in StagedTables(temp_netflix_titles)
  /\ temp_categories_titles = <<>>
  /\ faultsLeft = 0

NextRepeat ==
  \/ DrainStart
  \/ FetchPage
  \/ ProcessRecord
  \/ DrainFinish

\* The caller repeats the drain, and a call that started goes on.
SpecRepeat ==
  /\ InitRepeat
  /\ [][NextRepeat]_vars
  /\ WF_vars(DrainStart)
  /\ WF_vars(FetchPage)
  /\ WF_vars(ProcessRecord)
  /\ WF_vars(DrainFinish)

\* The candidates the running drain has marked so far.
MarkedByDrain == hist.startUnprocessed \ Unprocessed(temp_actors_titles)

\* C27 - Drain progress: absent store errors, a call of
\* populate_actors_titles_table_from_temp(batch_size = B) that found N >= 1
\* unprocessed candidates has marked at least min(B, N) of them when it
\* returns, and repeating the call leaves no candidate unprocessed after
\* finitely many calls.
DrainProgress ==
  /\ [][DrainFinish
          => Cardinality(MarkedByDrain)
               >= Min(drain.batch_size, drain.total_unprocessed)]_vars
  /\ <>(Unprocessed(temp_actors_titles) = {})

\* Three candidates were drained one per page: the first call left one of
\* them unprocessed and a later call finished the table.
DrainProgressWitness ==
  /\ drain.pc = "idle"
  /\ lastOp.op = "populate_actors_titles_table_from_temp"
  /\ lastOp.exc = "none"
  /\ Len(temp_actors_titles) = 3
  /\ Unprocessed(temp_actors_titles) = {}
  /\ Len(processing_status) >= 2
  /\ processing_status[1].status = "completed"
  /\ hist.startUnprocessed = {2}

\* ------------------------------------------- a fix while the drain runs
\* Another session resets one processed candidate of the staging table to
\* unprocessed while a drain is working on a page, so that the drain has its
\* loop test and page query still to come (at most once in a behaviour).
ExternalFix ==
  /\ drain.pc = "batch"
  /\ hist.fixed = {}
  /\ \E i \in DOMAIN temp_actors_titles :
       /\ temp_actors_titles[i].processed
       /\ temp_actors_titles' =
            [temp_actors_titles EXCEPT ![i].processed = FALSE]
       /\ hist' = [hist EXCEPT !.fixed = {i}]
  /\ UNCHANGED catVars
  /\ UNCHANGED <<temp_netflix_titles, temp_actor_titles, people, actors,
                 actors_titles, processing_status, ctl, people_cache,
                 title_cache, drain, conn_failed, now, faultsLeft, loads,
                 lastOp>>

InitFix ==
  /\ InitButStaging
  /\ temp_netflix_titles \in DupSources \cup RaceSources
  /\ temp_actors_titles \in StagedTables(temp_netflix_titles)
  /\ temp_categories_titles = <<>>
  /\ faultsLeft = 0

NextFix ==
  \/ DrainStart
  \/ FetchPage
  \/ ProcessRecord
  \/ DrainFinish
  \/ ExternalFix

SpecFix == InitFix /\ [][NextFix]_vars

\* C28 - Per-page re-query: a candidate that an external fix reset to
\* unprocessed while a drain was running is processed when that drain
\* returns.
PerPageRequery ==
  [][DrainFinish
       => \A i \in hist.fixed : temp_actors_titles[i].processed]_vars

\* The name of the people row p equals the name parsed from actor_name,
\* ignoring case.
EqualName(p, actor_name) ==
  LET q == person_data_of(actor_name)
  IN /\ Lower(p.first_name) = Lower(q.first_name)
     /\ IF q.last_name = None THEN p.last_name = None
        ELSE p.last_name # None /\ Lower(p.last_name) = Lower(q.last_name)

\* C29 - Store lookup is by equality: on a cache miss the resolver reuses a
\* person already in the store only if that person's first and last name
\* equal the candidate's, ignoring case.
StoreLookupByEquality ==
  [][ProcessRecord
       => LET actor_name ==
                Strip(temp_actors_titles[Head(drain.batch_df)].actor_name)
              key == Strip(Lower(actor_name))
          IN (/\ ~CacheHit(actor_name, people_cache)
              /\ key \in DOMAIN people_cache'
              /\ people_cache'[key] \in DOMAIN people)
               => EqualName(people[people_cache'[key]], actor_name)]_vars

\* ------------------------------------------------ names sharing a first token
\* Sources whose cast lists hold names with the same first token.
TokenSources ==
  { <<[show_id |-> "s1", cast |-> An \o <<",">> \o AnLi, listed_in |-> None]>>,
    <<[show_id |-> "s1", cast |-> AnLi \o <<",">> \o An \o <<" ">> \o Bo,
       listed_in |-> None],
      [show_id |-> "s2", cast |-> Bo, listed_in |-> None]>> }

InitTokens ==
  /\ InitCommon
  /\ temp_netflix_titles \in TokenSources
  /\ temp_categories_titles = <<>>
  /\ faultsLeft = MaxFaults

NextTokens ==
  \/ create_temp_actors_titles_table
  \/ DrainStart
  \/ FetchPage
  \/ ProcessRecord
  \/ DrainFinish
  \/ Restart

SpecTokens == InitTokens /\ [][NextTokens]_vars

\* The cache answers for actor_name by its first token only.
FirstTokenOnly(actor_name, cache) ==
  LET actor_name_lower == Strip(Lower(actor_name))
      parts == Split(actor_name_lower)
  IN /\ actor_name_lower \notin DOMAIN cache
     /\ parts # <<>>
     /\ parts[1] \in DOMAIN cache

\* C30 - First-token fallback: a candidate whose full lower-cased name is not
\* in the cache while its first token is resolves to the id cached under
\* that token, and no person row, actor row or cache entry is written; an id
\* cached under a token stays as it is while the drain runs, so two such
\* candidates of one drain with the same first token get the same id.
FirstTokenFallback ==
  [][/\ ProcessRecord
          => LET actor_name ==
                   Strip(temp_actors_titles[Head(drain.batch_df)].actor_name)
                 first_name == Split(Strip(Lower(actor_name)))[1]
             IN FirstTokenOnly(actor_name, people_cache)
                  => /\ people' = people
                     /\ actors' = actors
                     /\ people_cache' = people_cache
                     /\ <<actor_name, people_cache[first_name]>>
                          \in hist'.resolved
     /\ (drain.pc # "idle" /\ drain'.pc # "idle")
          => \A k \in DOMAIN people_cache :
               k \in DOMAIN people_cache' /\ people_cache'[k] = people_cache[k]
    ]_vars

\* 'An' was created and 'An Li' resolved to the same id through the token
\* 'an': one person, no row for 'An Li'.
FirstTokenFallbackWitness ==
  /\ <<An, 1>> \in hist.resolved
  /\ <<AnLi, 1>> \in hist.resolved
  /\ Len(people) = 1
  /\ actors = <<1>>
  /\ drain.pc = "page"

\* ------------------------------------------------ names of several words
\* Sources whose cast holds one name of two, three or four words.
WordSources ==
  { <<[show_id |-> "s1", cast |-> AnLi, listed_in |-> None]>>,
    <<[show_id |-> "s1", cast |-> An \o <<" ">> \o Bo \o <<" ">> \o Li,
       listed_in |-> None]>>,
    <<[show_id |-> "s1",
       cast |-> An \o <<" ">> \o Bo \o <<" ">> \o Li \o <<" ">> \o Na,
       listed_in |-> None]>> }

InitWords ==
  /\ InitCommon
  /\ temp_netflix_titles \in WordSources
  /\ temp_categories_titles = <<>>
  /\ faultsLeft = MaxFaults

SpecWords == InitWords /\ [][NextTokens]_vars

\* C31 - Resolver creation uses the word-count rule: a person row the
\* actors-titles resolver creates on a store miss has first name = first
\* word, middle name = second word when the name has three words or more
\* (none otherwise), last name = the second word of a two-word name, the
\* words from the third on otherwise (none for a single word).
ResolverWordCountRule ==
  [][(ProcessRecord /\ Len(people') > Len(people))
       => LET actor_name ==
                Strip(temp_actors_titles[Head(drain.batch_df)].actor_name)
              w == Split(actor_name)
              n == Len(w)
              r == people'[Len(people')]
          IN /\ r.first_name = w[1]
             /\ r.middle_name = (IF n >= 3 THEN w[2] ELSE None)
             /\ r.last_name =
                  (IF n = 1 THEN None
                   ELSE IF n = 2 THEN w[2]
                   ELSE JoinSpace(SubSeq(w, 3, n)))]_vars

\* ------------------------------- DirectorsController, the transfer (Part 2)
\* SELECT DISTINCT director_id FROM temp_director WHERE processed = FALSE
\* ORDER BY director_id
distinct_director_ids(table) ==
  SortedIds({table[i].director_id : i \in PendingIds(table)})

\* The bulk UPDATE that marks every unprocessed row, whatever its id.
mark_directors_as_processed_all(table, ids) ==
  [i \in DOMAIN table |-> [table[i] EXCEPT !.processed = TRUE]]

\* UPDATE temp_director SET processed = TRUE WHERE director_id IN (ids) AND
\* processed = FALSE
mark_directors_as_processed(table, ids) ==
  [i \in DOMAIN table |->
     IF table[i].director_id \in ids
     THEN [table[i] EXCEPT !.processed = TRUE] ELSE table[i]]

\* populate_directors_table_from_temp, the loop over distinct_director_ids
\* from number i on.  st = [directors, done, raised, counts]: the directors
\* table, successfully_processed_director_ids, the ids whose try block
\* raised, and <<inserted_count, existing_count, error_count>>.  The store
\* error of F strikes id number at: "check" the SELECT on directors,
\* "insert" the INSERT or its commit.  Every statement runs on a connection
\* of its own.  The process is stopped after id number stop (0: it is not).
RECURSIVE TransferLoop(_, _, _, _, _, _)
TransferLoop(ids, i, st, at, F, stop) ==
  IF i > Len(ids) \/ (stop # 0 /\ i > stop) THEN st
  ELSE
    LET director_id == ids[i]
        hit(point) == at = i /\ point \in F
        existing_director ==
          \E k \in DOMAIN st.directors : st.directors[k] = director_id
        n == st.counts
    IN IF hit("check") \/ (~existing_director /\ hit("insert"))
       THEN TransferLoop(ids, i + 1,
                         [st EXCEPT !.raised = @ \cup {director_id},
                                    !.counts = <<n[1], n[2], n[3] + 1>>],
                         at, F, stop)
       ELSE IF ~existing_director
       THEN TransferLoop(ids, i + 1,
                         [st EXCEPT !.directors = Append(@, director_id),
                                    !.done = Append(@, director_id),
                                    !.counts = <<n[1] + 1, n[2], n[3]>>],
                         at, F, stop)
       ELSE TransferLoop(ids, i + 1,
                         [st EXCEPT !.done = Append(@, director_id),
                                    !.counts = <<n[1], n[2] + 1, n[3]>>],
                         at, F, stop)

\* The marking that ends the transfer: the bulk UPDATE and, when it raises
\* ("mark"), one UPDATE per id, whose error ("remark", for id number at of
\* done) is printed and swallowed.
MarkTransferred(table, done, at, F) ==
  IF done = <<>> THEN table
  ELSE IF "mark" \notin F
  THEN mark_directors_as_processed(table, {done[k] : k \in DOMAIN done})
  ELSE mark_directors_as_processed(
         table, {done[k] : k \in {j \in DOMAIN done :
                                    ~(j = at /\ "remark" \in F)}})

\* DirectorsController.populate_directors_table_from_temp, the whole call.
\* "select" is an error of the first query (re-raised by the outer except);
\* "stop" ends the process after id number at, before any row is marked.
populate_directors_table_from_temp ==
  /\ Idle
  /\ \E F \in FaultSets({"select", "check", "insert", "mark", "remark",
                         "stop"}) :
       LET ids == distinct_director_ids(temp_director)
           raised == "select" \in F
           stopped == ~raised /\ "stop" \in F /\ ids # <<>>
       IN \E at \in (IF F \cap {"check", "insert", "remark", "stop"} = {}
                        \/ ids = <<>>
                     THEN {0} ELSE DOMAIN ids) :
            LET st0 == [directors |-> directors, done |-> <<>>,
                        raised |-> {}, counts |-> <<0, 0, 0>>]
                st == IF raised \/ ids = <<>> THEN st0
                      ELSE TransferLoop(ids, 1, st0, at, F,
                                        IF stopped THEN at ELSE 0)
            IN /\ directors' = st.directors
               /\ temp_director' =
                    IF stopped THEN temp_director
                    ELSE MarkTransferred(temp_director, st.done, at, F)
               /\ faultsLeft' = faultsLeft - Cardinality(F)
               /\ hist' = [hist EXCEPT
                             !.raisedIds = st.raised,
                             !.handled = {st.done[k] : k \in DOMAIN st.done}]
               /\ lastOp' = [op |-> "populate_directors_table_from_temp",
                             run |-> 0,
                             exc |-> IF raised THEN "StoreError"
                                     ELSE IF stopped THEN "Interrupted"
                                     ELSE "none",
                             totals |-> st.counts]
  /\ UNCHANGED <<actorVars, moreStoreVars, temp_categories_titles,
                 temp_categories, temp_actors, categories, categories_titles,
                 category_cache, cat_title_cache, cdrain, processing_status,
                 ctl, now, conn_failed>>

\* -------------------------------- the transfers that leave a record behind
\* Source rows with the columns of the title and the director controllers.
RetrySources ==
  {<<[show_id |-> "s1", title |-> An, type |-> Movie,
      director |-> An \o <<",", " ">> \o Bo, cast |-> None,
      listed_in |-> None],
     [show_id |-> "s2", title |-> Ki, type |-> Show, director |-> Bo,
      cast |-> None, listed_in |-> None]>>,
   <<[show_id |-> "s1", title |-> An, type |-> Movie, director |-> Li,
      cast |-> None, listed_in |-> None]>>}

InitRetry ==
  /\ InitCommon
  /\ temp_netflix_titles \in RetrySources
  /\ temp_categories_titles = <<>>
  /\ faultsLeft = MaxFaults

NextRetry ==
  \/ create_temp_titles_table
  \/ populate_titles_table_from_temp
  \/ create_temp_director_table
  \/ populate_directors_table_from_temp
  \/ Restart

SpecRetry == InitRetry /\ [][NextRetry]_vars

\* C32: in a run of populate_titles_table_from_temp or of
\* populate_directors_table_from_temp that returns, a record whose handling
\* raised keeps processed = FALSE (the next run's WHERE processed = FALSE
\* selects it again), and every other record of the run is handled: its
\* title, or its director, is in the target table when the run ends.
LeaveForRetry ==
  [][(/\ populate_titles_table_from_temp
         \/ populate_directors_table_from_temp
      /\ lastOp'.exc = "none")
       => IF lastOp'.op = "populate_titles_table_from_temp"
          THEN \A i \in PendingIds(temp_titles) :
                 IF i \in hist'.raisedIds
                 THEN i \in PendingIds(temp_titles')
                 ELSE \E k \in DOMAIN titles' :
                        titles'[k].code = temp_titles[i].show_id
          ELSE \A i \in PendingIds(temp_director) :
                 IF temp_director[i].director_id \in hist'.raisedIds
                 THEN /\ i \in PendingIds(temp_director')
                      /\ \E k \in DOMAIN distinct_director_ids(temp_director') :
                           distinct_director_ids(temp_director')[k]
                             = temp_director[i].director_id
                 ELSE \E k \in DOMAIN directors' :
                        directors'[k] = temp_director[i].director_id]_vars

\* A transfer of directors has returned with one id left for the next run
\* and another id inserted and marked.
LeaveForRetryWitness ==
  /\ lastOp.op = "populate_directors_table_from_temp"
  /\ lastOp.exc = "none"
  /\ hist.raisedIds # {}
  /\ hist.handled # {}
  /\ \E i, j \in DOMAIN temp_director :
       /\ temp_director[i].director_id \in hist.raisedIds
       /\ temp_director[i].processed = FALSE
       /\ temp_director[j].director_id \in hist.handled
       /\ temp_director[j].processed = TRUE

\* ------------------------------------ the directors transfer's behaviours
InitTransfer ==
  /\ InitCommon
  /\ temp_netflix_titles \in RetrySources
  /\ temp_categories_titles = <<>>
  /\ faultsLeft = MaxStageFaults

NextTransfer ==
  \/ create_temp_director_table
  \/ populate_directors_table_from_temp
  \/ Restart

SpecTransfer == InitTransfer /\ [][NextTransfer]_vars

\* C33: whatever runs of populate_directors_table_from_temp came before, one
\* stopped between its inserts and its marking included, the directors table
\* holds at most one row per director_id, and when a run has returned every
\* staging row of a director_id it handled successfully is processed.
TransferSafeToInterrupt ==
  /\ \A i, j \in DOMAIN directors : i # j => directors[i] # directors[j]
  /\ (/\ lastOp.op = "populate_directors_table_from_temp"
      /\ lastOp.exc = "none")
       => \A i \in DOMAIN temp_director :
            temp_director[i].director_id \in hist.handled
              => temp_director[i].processed = TRUE

\* ------------------------------------------- stage, drain, stage, drain
\* No store error is injected and the source is never replaced.
InitRestage ==
  /\ InitCommon
  /\ temp_netflix_titles \in DupSources \cup WordSources \cup TokenSources
  /\ temp_categories_titles = <<>>
  /\ faultsLeft = 0

SpecRestage == InitRestage /\ [][NextDup]_vars

\* The drain with run run_id started on a freshly staged table after an
\* earlier staging and drain of the same source had completed.
Redrain(run_id) ==
  /\ hist.tempAtStart # <<>>
  /\ hist.startUnprocessed = DOMAIN hist.tempAtStart
  /\ \E s, r \in 1..(run_id - 1) :
       /\ s < r
       /\ processing_status[s].table_name = "temp_actors_titles"
       /\ processing_status[s].status = "completed"
       /\ processing_status[r].table_name = "actors_titles"
       /\ processing_status[r].status = "completed"

\* C34: a drain of the re-staged table after a drain of the same source
\* creates no person, actor or relationship, and returns with every
\* candidate counted processed and skipped and none counted created.
RestageRedrainDuplicatesNothing ==
  /\ [][(ProcessRecord /\ Redrain(drain.run_id))
          => /\ people' = people
             /\ actors' = actors
             /\ actors_titles' = actors_titles]_vars
  /\ []((/\ lastOp.op = Populate
         /\ lastOp.exc = "none"
         /\ Redrain(lastOp.run))
          => lastOp.totals = <<Len(hist.tempAtStart), 0,
                               Len(hist.tempAtStart)>>)

\* C35: a step of the drain (populate_actors_titles_table_from_temp) keeps
\* every staging row in place with its show_id and actor_name, never takes
\* processed from TRUE back to FALSE, and changes a row only by setting
\* processed to TRUE for the record it has just handled.
StagingFrame ==
  [][(DrainStart \/ FetchPage \/ ProcessRecord \/ DrainFinish)
       => /\ DOMAIN temp_actors_titles' = DOMAIN temp_actors_titles
          /\ \A i \in DOMAIN temp_actors_titles :
               LET old == temp_actors_titles[i]
                   new == temp_actors_titles'[i]
               IN /\ new.show_id = old.show_id
                  /\ new.actor_name = old.actor_name
                  /\ old.processed = TRUE => new.processed = TRUE
                  /\ new # old
                       => /\ drain.pc = "batch"
                          /\ i = Head(drain.batch_df)
                          /\ new = [old EXCEPT !.processed = TRUE]]_vars

\* A drain has marked a candidate while another one of the same title is
\* still unprocessed.
StagingFrameWitness ==
  /\ drain.pc # "idle"
  /\ \E i \in hist.handled, j \in DOMAIN temp_actors_titles :
       /\ temp_actors_titles[i].processed = TRUE
       /\ temp_actors_titles[j].processed = FALSE
       /\ temp_actors_titles[j].show_id = temp_actors_titles[i].show_id

\* C36: every record of a batch adds (1, 1, 0), (1, 0, 1) or (0, 0, 0) to
\* the counters of _process_batch, (0, 0, 0) only when the record is left
\* unmarked, and the tuple _process_batch returns after the last record of
\* the page has processed = created + skipped.
CounterBalance ==
  [][ProcessRecord
       => LET record_id == Head(drain.batch_df)
              added == <<drain'.batch_processed - drain.batch_processed,
                         drain'.batch_created - drain.batch_created,
                         drain'.batch_skipped - drain.batch_skipped>>
          IN /\ added \in {<<1, 1, 0>>, <<1, 0, 1>>, <<0, 0, 0>>}
             /\ added = <<0, 0, 0>>
                  => temp_actors_titles'[record_id].processed = FALSE
             /\ drain'.pc = "page"
                  => drain'.batch_processed
                       = drain'.batch_created + drain'.batch_skipped]_vars

\* A page has been returned in which one record created a relationship and
\* one could not be marked.
CounterBalanceWitness ==
  /\ drain.pc = "page"
  /\ drain.batch_created >= 1
  /\ drain.batch_processed = drain.batch_created + drain.batch_skipped
  /\ \E i \in hist.handled : temp_actors_titles[i].processed = FALSE

\* C37: in every state of the checkpoint table a run has an end_time if and
\* only if its status is completed or failed.
EndTimeTracksTerminality ==
  \A i \in DOMAIN processing_status :
    (processing_status[i].end_time # NoValue)
      <=> (processing_status[i].status \in Terminal)

\* One run has ended and another one has reported progress.
EndTimeTracksTerminalityWitness ==
  \E i, j \in DOMAIN processing_status :
    /\ processing_status[i].status \in Terminal
    /\ processing_status[i].end_time # NoValue
    /\ processing_status[j].status = "processing"
    /\ processing_status[j].end_time = NoValue

\* ------------------------------------ _get_or_create_category, frame by frame
\* The depth of calls at which the interpreter refuses another frame
\* (sys.getrecursionlimit() frames in CPython, 1000 unless it is changed).
RecursionLimit == 3

\* A stack that never runs out of frames.
RecursionError_never(depth) == FALSE

\* The call of a Python function from a frame at this depth raises
\* RecursionError instead of opening the next frame.
RecursionError(depth) == depth >= RecursionLimit

\* The two copies of the method: categories_titles_controller.py re-raises
\* when the fallback "unknown" fails ("guarded"),
\* categories_titles_controller_clean.py calls itself again ("clean").
Variants == {"guarded", "clean"}

ResolverInputs == {Dr, Ki, Unknown, None, <<" ">>, <<" ">> \o Dr}

\* A caller passes category_name to _get_or_create_category.
GetOrCreateCall ==
  /\ Idle
  /\ \E variant \in Variants, category_name \in ResolverInputs :
       cdrain' = [pc |-> "resolve", variant |-> variant,
                  category_name |-> category_name, depth |-> 1]
  /\ lastOp' = [op |-> "_get_or_create_category", run |-> 0,
                exc |-> "running", totals |-> <<0, 0, 0>>]
  /\ UNCHANGED <<actorVars, catStoreVars, category_cache, cat_title_cache,
                 processing_status, ctl, now, conn_failed, faultsLeft, hist>>

\* The body of the innermost frame.  error: get_by_description or create
\* raises (any call may, and all of them may).  A value returned or an
\* exception raised by the innermost frame passes through the frames above
\* it, which called from their except clause with `return`.
GetOrCreateStep ==
  /\ cdrain.pc = "resolve"
  /\ cdrain.depth <= RecursionLimit
  /\ LET name == Strip(IF cdrain.category_name = None
                          \/ Strip(cdrain.category_name) = <<>>
                       THEN Unknown ELSE cdrain.category_name)
         existing_category == get_by_description(categories, name)
         category_id == Len(categories) + 1
         returns(id, exc) ==
           /\ cdrain' = NoCatDrain
           /\ lastOp' = [op |-> "_get_or_create_category", run |-> 0,
                         exc |-> exc, totals |-> <<id, cdrain.depth, 0>>]
     IN IF name \in DOMAIN category_cache
        THEN /\ returns(category_cache[name], "none")
             /\ UNCHANGED <<categories, category_cache>>
        ELSE \E error \in BOOLEAN :
               IF error
               THEN /\ UNCHANGED <<categories, category_cache>>
                    /\ IF cdrain.variant = "guarded" /\ name = Unknown
                       THEN returns(0, "StoreError")
                       ELSE IF RecursionError(cdrain.depth)
                       THEN returns(0, "RecursionError")
                       ELSE /\ cdrain' = [cdrain EXCEPT
                                            !.category_name = Unknown,
                                            !.depth = @ + 1]
                            /\ UNCHANGED lastOp
               ELSE IF existing_category # {}
               THEN \E id \in existing_category :
                      /\ returns(id, "none")
                      /\ category_cache' = CachePut(category_cache, name, id)
                      /\ UNCHANGED categories
               ELSE /\ returns(category_id, "none")
                    /\ categories' = Append(categories, name)
                    /\ category_cache' =
                         CachePut(category_cache, name, category_id)
  /\ UNCHANGED <<actorVars, temp_categories_titles, temp_categories,
                 temp_director, directors, temp_actors, moreStoreVars,
                 categories_titles, cat_title_cache, processing_status, ctl,
                 now, conn_failed, faultsLeft, hist>>

InitResolve ==
  /\ InitCommon
  /\ temp_netflix_titles \in CatSources
  /\ temp_categories_titles = <<>>
  /\ faultsLeft = 0

NextResolve ==
  \/ GetOrCreateCall
  \/ GetOrCreateStep
  \/ Restart

\* A frame that has been entered runs its body.
SpecResolve ==
  /\ InitResolve
  /\ [][NextResolve]_vars
  /\ WF_vars(GetOrCreateStep)

====
